---- MODULE Spec2Model ----
(***************************************************************************)
(* Model of goatest: threadSafeWriter (the captured output of a process)   *)
(* and Process (Run / Stop / accessors, the two pump goroutines, the       *)
(* readiness channel raced against time.After, and the detached reaper).   *)
(*                                                                         *)
(* Text is a sequence of one-character strings.  A task is a pair          *)
(* <<kind, number>>: clients <<"c", i>>, pumps <<"out", k>> and            *)
(* <<"err", k>> of the k-th spawn, producers <<"prod", i>> and the reader  *)
(* <<"rd", 1>> of the stand-alone writer specification.                    *)
(***************************************************************************)
EXTENDS Integers, Sequences, FiniteSets, TLC

\* ---------------------------------------------------------------- bounds
\* spawns and lines of program output of one behaviour, counted together
MaxEvents == 3
\* the same for the behaviours studied under fairness
LiveEvents == 2
\* the same for the behaviours in which the accessors are taken step by step
AccessEvents == 2
MaxChunks == 2
NumClients == 2
MaxReaderOps == 2
\* waitForOutput: the longest timeout in milliseconds, and the appends and
\* resets that run beside it
MaxTimeout == 12
MaxAppends == 2
MaxResets == 1
\* the environment: lines of the environment file, and spawns of a behaviour
MaxFileLines == 2
EnvEvents == 1
\* spawns and lines together in SpecOrder
OrderEvents == 3
\* depth of the deepest working directory in SpecRoot
MaxDepth == 32

\* ------------------------------------------------------ program constants
\* time.After(30 * time.Second), in milliseconds
ReadyTimeout == 30000

\* time.Sleep(10 * time.Millisecond) in waitForOutput, in milliseconds
PollInterval == 10
\* const MaxSearchIterations = 30
MaxSearchIterations == 30

\* "[runner] Waiting for the readiness.\n", abbreviated to two characters
DiagLine == <<"w", "\n">>

None == <<"none", 0>>

VARIABLES
    budget,      \* bound: spawns and lines of program output together
    File,        \* Process.File: "" or a path
    EnvFile,     \* Process.EnvFile: "" or a path
    envFileText, \* the lines of the file at that path
    envFileErr,  \* "none", or how the file fails: "open" or "read"
    environ,     \* os.Environ(): the inherited "KEY=value" entries
    Env,         \* Process.Env: a function from keys to values
    cmdEnv,      \* p.cmd.Env: the entries handed to the child
    envReads,    \* history: calls of loadEnvFile
    WaitingFor,  \* Process.WaitingFor: "nil" or the kind of predicate
    LogStream,   \* Process.LogStream: TRUE when a sink is configured
    running,     \* Process.running
    cmd,         \* Process.cmd: [nil, pid]; pid 0 is cmd.Process == nil
    pmu,         \* Process.mu: the task holding it, or None
    safeWriter,  \* Process.safeWriter: 0 is nil, else a writer id
    buffer,      \* threadSafeWriter.buffer, per writer id
    lines,       \* threadSafeWriter.lines, per writer id
    wmu,         \* threadSafeWriter.mu: the task holding the write lock
    sink,        \* what the delegate io.Writer has received
    readyChan,   \* number of values buffered in readyChan, per spawn
    proc,        \* the operating-system process of each spawn
    pipe,        \* lines a dead program left unread in each output pipe
    nemit,       \* lines the spawned programs have written so far
    reaper,      \* the goroutine running cmd.Wait, per spawn
    nruns,       \* Runs that got as far as newThreadSafeWriter
    now,         \* milliseconds since the pending timer was started
    pc,          \* position of every task
    loc,         \* locals of every task
    hist,        \* history: chunks whose Write completed since the last reset
    kills,       \* history: kill calls issued against each spawn
    spawnedSinceStop, \* history: successful spawns since Stop last cleared running
    bySignal,    \* history: the last Run returned through readyChan
    cwd,         \* ProjectRoot: depth of the resolved working directory (root is 0)
    goMod,       \* ProjectRoot: depths of the ancestors where Stat(go.mod) succeeds
    dir,         \* ProjectRoot: depth of dir
    iter,        \* ProjectRoot: the loop variable i
    rootPc,      \* ProjectRoot: "none", "call", "loop" or "done"
    result       \* ProjectRoot: what it returned, [dir, err]

vars == <<EnvFile, envFileText, envFileErr, environ, Env, cmdEnv, envReads,
          budget, File, WaitingFor, LogStream, running, cmd, pmu, safeWriter, buffer,
          lines, wmu, sink, readyChan, proc, pipe, nemit, reaper,
          nruns, now, pc, loc, hist, kills, spawnedSinceStop, bySignal,
          cwd, goMod, dir, iter, rootPc, result>>

rootVars == <<cwd, goMod, dir, iter, rootPc, result>>
cfgVars == <<budget, File, WaitingFor, LogStream,
             EnvFile, envFileText, envFileErr, environ, rootVars>>
envVars == <<Env, cmdEnv, envReads>>
procVars == <<running, cmd, safeWriter, nruns>>
osVars == <<proc, pipe, nemit, reaper>>
histVars == <<kills, spawnedSinceStop, bySignal>>

\* ------------------------------------------------------------ text helpers
RECURSIVE Concat(_)
Concat(ss) == IF ss = <<>> THEN <<>> ELSE Head(ss) \o Concat(Tail(ss))

\* bytes.Contains / strings.Contains
Contains_Prefix(text, needle) == Len(needle) <= Len(text) /\ SubSeq(text, 1, Len(needle)) = needle

Contains(text, needle) ==
    \E i \in 0..(Len(text) - Len(needle)) :
        SubSeq(text, i + 1, i + Len(needle)) = needle

\* strings.HasSuffix
HasSuffix(text, suffix) ==
    /\ Len(text) >= Len(suffix)
    /\ SubSeq(text, Len(text) - Len(suffix) + 1, Len(text)) = suffix

\* The WaitingFor callbacks: a substring test as in the tests, a predicate
\* that matches nothing the program prints, and one that stops holding when
\* more text arrives.
WaitingForPred_AlwaysTrue(kind, text) == TRUE

WaitingForPred(kind, text) ==
    CASE kind = "hasA"  -> Contains(text, <<"a">>)
      [] kind = "never" -> Contains(text, <<"z">>)
      [] kind = "endsA" -> HasSuffix(text, <<"a", "\n">>)
      [] OTHER          -> FALSE

\* the predicate held after some earlier append recorded in h (or on the
\* empty text)
SatisfiedBefore(kind, h) ==
    \E i \in 0..Len(h) : WaitingForPred(kind, Concat(SubSeq(h, 1, i)))

\* ------------------------------------------------------------ loadEnvFile
IsSpace(c) == c \in {" ", "\t"}

RECURSIVE TrimLeft(_)
TrimLeft(s) == IF s # <<>> /\ IsSpace(Head(s)) THEN TrimLeft(Tail(s)) ELSE s

RECURSIVE TrimRight(_)
TrimRight(s) ==
    IF s # <<>> /\ IsSpace(s[Len(s)]) THEN TrimRight(SubSeq(s, 1, Len(s) - 1))
    ELSE s

\* strings.TrimSpace
TrimSpace(s) == TrimRight(TrimLeft(s))

\* strings.HasPrefix
HasPrefix(text, prefix) ==
    /\ Len(text) >= Len(prefix)
    /\ SubSeq(text, 1, Len(prefix)) = prefix

\* strings.Index for one character: the first position of c in s, or 0
IndexOf(s, c) ==
    IF \E i \in 1..Len(s) : s[i] = c
    THEN CHOOSE i \in 1..Len(s) : s[i] = c /\ \A j \in 1..(i - 1) : s[j] # c
    ELSE 0

\* strings.SplitN(line, "=", 2)
SplitN2(line) ==
    LET i == IndexOf(line, "=")
    IN IF i = 0 THEN <<line>>
       ELSE <<SubSeq(line, 1, i - 1), SubSeq(line, i + 1, Len(line))>>

\* the value starts and ends with the same quote character
Quoted(value) ==
    \/ HasPrefix(value, <<"\"">>) /\ HasSuffix(value, <<"\"">>)
    \/ HasPrefix(value, <<"'">>) /\ HasSuffix(value, <<"'">>)

\* one round of the scanner loop of loadEnvFile: the line is skipped, sets
\* key to value, or value[1 : len(value)-1] panics (slice bounds 1 > 0)
ParseLine(raw) ==
    LET line == TrimSpace(raw)
        skip == [kind |-> "skip", key |-> <<>>, value |-> <<>>]
    IN IF line = <<>> \/ HasPrefix(line, <<"#">>) THEN skip
       ELSE LET parts == SplitN2(line)
            IN IF Len(parts) # 2 THEN skip
               ELSE LET key == TrimSpace(parts[1])
                        value == TrimSpace(parts[2])
                    IN IF Quoted(value)
                       THEN IF Len(value) < 2
                            THEN [kind |-> "panic", key |-> key, value |-> value]
                            ELSE [kind |-> "set", key |-> key,
                                  value |-> SubSeq(value, 2, Len(value) - 1)]
                       ELSE [kind |-> "set", key |-> key, value |-> value]

\* if _, exists := p.Env[key]; !exists { p.Env[key] = value }
SetIfAbsent_Overwrite(env, key, value) ==
    [k \in DOMAIN env \cup {key} |-> IF k = key THEN value ELSE env[k]]

SetIfAbsent(env, key, value) ==
    IF key \in DOMAIN env THEN env
    ELSE [k \in DOMAIN env \cup {key} |-> IF k = key THEN value ELSE env[k]]

\* the scanner loop over the lines ls, starting from the mapping env
RECURSIVE LoadLines(_, _)
LoadLines(env, ls) ==
    IF ls = <<>> THEN [env |-> env, status |-> "ok"]
    ELSE LET r == ParseLine(Head(ls))
         IN IF r.kind = "panic" THEN [env |-> env, status |-> "panic"]
            ELSE LoadLines(IF r.kind = "set"
                           THEN SetIfAbsent(env, r.key, r.value) ELSE env,
                           Tail(ls))

\* loadEnvFile: os.Open fails, or the lines are merged and scanner.Err()
\* reports a read error or none
loadEnvFile(env) ==
    IF envFileErr = "open" THEN [env |-> env, status |-> "error"]
    ELSE LET r == LoadLines(env, envFileText)
         IN IF r.status = "ok" /\ envFileErr = "read"
            THEN [r EXCEPT !.status = "error"]
            ELSE r

\* ---------------------------------------------------------------- cmd.Env
\* the orders in which range p.Env can visit the keys S
Orderings(S) ==
    {ord \in [1..Cardinality(S) -> S] : \A k \in S : \E i \in DOMAIN ord : ord[i] = k}

\* p.cmd.Env = os.Environ(); for k, v := range p.Env { append k+"="+v }
CmdEnvFor_Prepend(inherited, env, ord) ==
    [i \in 1..Len(ord) |-> ord[i] \o <<"=">> \o env[ord[i]]] \o inherited

CmdEnvFor(inherited, env, ord) ==
    inherited \o [i \in 1..Len(ord) |-> ord[i] \o <<"=">> \o env[ord[i]]]

\* what the child finds for key: of the entries "key=value" the last one
\* counts (os/exec keeps the last of duplicate keys); <<>> stands for unset
RECURSIVE EffectiveEnv(_, _)
EffectiveEnv(entries, key) ==
    IF entries = <<>> THEN <<>>
    ELSE LET e == entries[Len(entries)]
             parts == SplitN2(e)
         IN IF Len(parts) = 2 /\ parts[1] = key THEN <<parts[2]>>
            ELSE EffectiveEnv(SubSeq(entries, 1, Len(entries) - 1), key)

\* --------------------------------------------------------------- task sets
Clients == {<<"c", i>> : i \in 1..NumClients}
MaxOf(S) == CHOOSE m \in S : \A n \in S : n <= m
RunIds == 1..MaxOf({MaxEvents, LiveEvents, AccessEvents, EnvEvents, OrderEvents})
Pumps == {<<ch, k>> : ch \in {"out", "err"}, k \in RunIds}
Producers == {<<"prod", 1>>, <<"prod", 2>>}
Readers == {<<"rd", 1>>}
ProcTasks == Clients \cup Pumps
WriterTasks == Producers \cup Readers
Waiters == {<<"wt", 1>>}
Appenders == {<<"ap", 1>>}
WaitTasks == Waiters \cup Appenders
WriterIds == RunIds
\* scanner.Text() of a line: the program's standard output says "a", its
\* standard error says "b"
LineText(ch) == IF ch = "out" THEN <<"a">> ELSE <<"b">>
\* what a producer passes to Write: its own two bytes or, for the first
\* producer, the empty chunk
ProducerChunk(t) == IF t[2] = 1 THEN <<"a", "\n">> ELSE <<"b", "\n">>
ChunkSet(t) == IF t[2] = 1 THEN {<<>>, ProducerChunk(t)} ELSE {ProducerChunk(t)}

Loc0 == [chunk |-> <<>>, idx |-> 0, w |-> 0, cont |-> "idle", s |-> 0,
         deadline |-> 0, via |-> "", sat |-> FALSE,
         op |-> "", ret |-> <<>>, n |-> 0, err |-> "",
         seen |-> FALSE, intime |-> FALSE]

\* ------------------------------------------------- threadSafeWriter.Write
\* tsw.mu.Lock() / RLock() can be taken
WLockFree_NoLock(w) == TRUE

WLockFree(w) == wmu[w] = None

\* tsw.mu.Lock()
W_Lock(t) ==
    /\ pc[t] = "w_lock"
    /\ WLockFree(loc[t].w)
    /\ wmu' = [wmu EXCEPT ![loc[t].w] = t]
    /\ pc' = [pc EXCEPT ![t] = IF loc[t].chunk = <<>> THEN "w_lines" ELSE "w_buf"]
    /\ UNCHANGED <<cfgVars, envVars, procVars, osVars, histVars, pmu, buffer, lines,
                   sink, readyChan, now, loc, hist>>

\* tsw.buffer.Write(p): the bytes are copied one after the other
W_Buf(t) ==
    /\ pc[t] = "w_buf"
    /\ LET w == loc[t].w
           i == loc[t].idx + 1
       IN /\ buffer' = [buffer EXCEPT ![w] = Append(@, loc[t].chunk[i])]
          /\ loc' = [loc EXCEPT ![t].idx = i]
          /\ pc' = [pc EXCEPT ![t] = IF i = Len(loc[t].chunk) THEN "w_lines" ELSE "w_buf"]
    /\ UNCHANGED <<cfgVars, envVars, procVars, osVars, histVars, pmu, lines, wmu,
                   sink, readyChan, now, hist>>

\* if content != "" { tsw.lines = append(tsw.lines, content) }
LinesAfterWrite(ls, content) ==
    IF content # <<>> THEN Append(ls, content) ELSE ls

W_Lines(t) ==
    /\ pc[t] = "w_lines"
    /\ lines' = [lines EXCEPT ![loc[t].w] = LinesAfterWrite(@, loc[t].chunk)]
    /\ pc' = [pc EXCEPT ![t] = IF LogStream THEN "w_sink" ELSE "w_unlock"]
    /\ UNCHANGED <<cfgVars, envVars, procVars, osVars, histVars, pmu, buffer, wmu,
                   sink, readyChan, now, loc, hist>>

\* if tsw.delegate != nil { _, _ = tsw.delegate.Write(p) }
SinkAfterWrite_Skip(sk, w, p) == sk

SinkAfterWrite(sk, w, p) == Append(sk, [w |-> w, chunk |-> p])

\* the err that Write returns, given the err of tsw.buffer.Write and whether
\* the delegate failed: "_, _ = tsw.delegate.Write(p)" ... "return n, err"
ErrAfterSink_Propagate(err, sinkFailed) == IF sinkFailed THEN "sink" ELSE err

ErrAfterSink(err, sinkFailed) == err

W_Sink(t) ==
    /\ pc[t] = "w_sink"
    /\ sink' = SinkAfterWrite(sink, loc[t].w, loc[t].chunk)
    /\ loc' = [loc EXCEPT ![t].err = ErrAfterSink(@, FALSE)]
    /\ pc' = [pc EXCEPT ![t] = "w_unlock"]
    /\ UNCHANGED <<cfgVars, envVars, procVars, osVars, histVars, pmu, buffer, lines,
                   wmu, readyChan, now, hist>>

\* the same statement with a delegate whose Write returns an error: the
\* chunk does not arrive in the sink, the error is dropped
W_SinkFail(t) ==
    /\ pc[t] = "w_sink"
    /\ loc' = [loc EXCEPT ![t].err = ErrAfterSink(@, TRUE)]
    /\ pc' = [pc EXCEPT ![t] = "w_unlock"]
    /\ UNCHANGED <<cfgVars, envVars, procVars, osVars, histVars, pmu, buffer, lines,
                   wmu, sink, readyChan, now, hist>>

\* defer tsw.mu.Unlock(); return n, err
W_Unlock(t) ==
    /\ pc[t] = "w_unlock"
    /\ LET w == loc[t].w
       IN /\ wmu' = [wmu EXCEPT ![w] = None]
          /\ hist' = [hist EXCEPT ![w] = Append(@, loc[t].chunk)]
          /\ UNCHANGED loc
    /\ pc' = [pc EXCEPT ![t] = loc[t].cont]
    /\ UNCHANGED <<cfgVars, envVars, procVars, osVars, histVars, pmu, buffer, lines,
                   sink, readyChan, now>>

\* threadSafeWriter.Write with the new chunk put in front
Write_Prepend(w, p) ==
    /\ WLockFree(w)
    /\ buffer' = [buffer EXCEPT ![w] = p \o @]
    /\ lines' = [lines EXCEPT ![w] = <<p>> \o @]
    /\ sink' = IF LogStream THEN SinkAfterWrite(sink, w, p) ELSE sink
    /\ hist' = [hist EXCEPT ![w] = Append(@, p)]
    /\ UNCHANGED wmu

\* Write as one step, for callers whose own interleaving is studied (Process):
\* the critical section between Lock and Unlock, whose atomicity with
\* respect to every other user of the writer is the subject of SpecWriter.
Write(w, p) ==
    /\ WLockFree(w)
    /\ buffer' = [buffer EXCEPT ![w] = @ \o p]
    /\ lines' = [lines EXCEPT ![w] = LinesAfterWrite(@, p)]
    /\ sink' = IF LogStream THEN SinkAfterWrite(sink, w, p) ELSE sink
    /\ hist' = [hist EXCEPT ![w] = Append(@, p)]
    /\ UNCHANGED wmu

\* ---------------------------------------------- threadSafeWriter readers
\* getOutput: tsw.buffer.String() under RLock
getOutput(w) == buffer[w]

\* getLines: a copy of tsw.lines under RLock
getLines(w) == lines[w]

\* containsOutput: bytes.Contains(tsw.buffer.Bytes(), []byte(text))
containsOutput_Always(w, text) == TRUE

containsOutput(w, text) == Contains(buffer[w], text)

\* reset: tsw.buffer.Reset(); tsw.lines = tsw.lines[:0]
BufferAfterReset_Keep(b) == b

BufferAfterReset(b) == <<>>

LinesAfterReset_Keep(ls) == ls

LinesAfterReset(ls) == <<>>

W_Reset(w) ==
    /\ WLockFree(w)
    /\ buffer' = [buffer EXCEPT ![w] = BufferAfterReset(@)]
    /\ lines' = [lines EXCEPT ![w] = LinesAfterReset(@)]
    /\ hist' = [hist EXCEPT ![w] = <<>>]

\* ============================================================ SpecWriter
\* One threadSafeWriter (id 1) used directly: two producers call Write,
\* a reader calls getOutput / getLines / containsOutput / reset.
\* the chunks of h that producer t can have written
RECURSIVE ChunksBy(_, _)
ChunksBy(h, t) ==
    IF h = <<>> THEN <<>>
    ELSE IF Head(h) = ProducerChunk(t) THEN <<Head(h)>> \o ChunksBy(Tail(h), t)
         ELSE ChunksBy(Tail(h), t)

RECURSIVE NonEmpty(_)
NonEmpty(cs) ==
    IF cs = <<>> THEN <<>>
    ELSE IF Head(cs) = <<>> THEN NonEmpty(Tail(cs))
         ELSE <<Head(cs)>> \o NonEmpty(Tail(cs))

\* no environment file, no explicit and no inherited variables
NoEnv ==
    /\ EnvFile = ""
    /\ envFileText = <<>>
    /\ envFileErr = "none"
    /\ environ = <<>>
    /\ Env = <<>>

\* ProjectRoot is not called
NoSearch ==
    /\ cwd = 0
    /\ goMod = {}
    /\ dir = 0
    /\ iter = 0
    /\ rootPc = "none"
    /\ result = [dir |-> -1, err |-> ""]

InitCommon ==
    /\ cmdEnv = <<>>
    /\ envReads = 0
    /\ running = FALSE
    /\ cmd = [nil |-> TRUE, pid |-> 0]
    /\ pmu = None
    /\ buffer = [w \in WriterIds |-> <<>>]
    /\ lines = [w \in WriterIds |-> <<>>]
    /\ wmu = [w \in WriterIds |-> None]
    /\ hist = [w \in WriterIds |-> <<>>]
    /\ sink = <<>>
    /\ readyChan = [k \in RunIds |-> 0]
    /\ proc = [k \in RunIds |-> "none"]
    /\ pipe = [t \in Pumps |-> 0]
    /\ nemit = 0
    /\ reaper = [k \in RunIds |-> "none"]
    /\ nruns = 0
    /\ now = 0
    /\ kills = [k \in RunIds |-> 0]
    /\ spawnedSinceStop = 0
    /\ bySignal = FALSE

InitWriter ==
    /\ InitCommon
    /\ NoSearch
    /\ NoEnv
    /\ budget = 0
    /\ File = ""
    /\ WaitingFor = "nil"
    /\ LogStream \in BOOLEAN
    /\ safeWriter = 1
    /\ pc = [t \in WriterTasks |-> "idle"]
    /\ loc = [t \in WriterTasks |-> Loc0]

\* a producer calls Write(p); loc.ret records what it has passed so far
ProducerWrite(t) ==
    /\ pc[t] = "idle"
    /\ loc[t].n < MaxChunks
    /\ \E p \in ChunkSet(t) :
        /\ pc' = [pc EXCEPT ![t] = "w_lock"]
        /\ loc' = [loc EXCEPT ![t].chunk = p, ![t].w = 1, ![t].cont = "idle",
                              ![t].idx = 0, ![t].ret = Append(@, p),
                              ![t].n = @ + 1]
    /\ UNCHANGED <<cfgVars, envVars, procVars, osVars, histVars, pmu, buffer, lines,
                   wmu, sink, readyChan, now, hist>>

\* getOutput / getLines / containsOutput: the read happens under RLock
ReaderRead(t) ==
    /\ pc[t] = "idle"
    /\ loc[t].n < MaxReaderOps
    /\ WLockFree(1)
    /\ \/ loc' = [loc EXCEPT ![t].op = "getOutput", ![t].ret = getOutput(1),
                             ![t].n = @ + 1]
       \/ loc' = [loc EXCEPT ![t].op = "getLines", ![t].ret = getLines(1),
                             ![t].n = @ + 1]
       \/ \E x \in {<<"a">>, <<"\n", "a">>} :
            loc' = [loc EXCEPT ![t].op = "containsOutput", ![t].chunk = x,
                               ![t].ret = <<containsOutput(1, x)>>,
                               ![t].n = @ + 1]
    /\ UNCHANGED <<cfgVars, envVars, procVars, osVars, histVars, pmu, buffer, lines,
                   wmu, sink, readyChan, now, pc, hist>>

ReaderReset(t) ==
    /\ pc[t] = "idle"
    /\ loc[t].n < MaxReaderOps
    /\ W_Reset(1)
    /\ loc' = [loc EXCEPT ![t].op = "reset", ![t].ret = <<>>, ![t].n = @ + 1,
                          ![t].idx = 1]
    /\ UNCHANGED <<cfgVars, envVars, procVars, osVars, histVars, pmu, wmu, sink,
                   readyChan, now, pc>>

WriteStep(t) == W_Lock(t) \/ W_Buf(t) \/ W_Lines(t) \/ W_Sink(t) \/ W_Unlock(t)

NextWriter ==
    \/ \E t \in Producers : ProducerWrite(t) \/ WriteStep(t)
    \/ \E t \in Readers : ReaderRead(t) \/ ReaderReset(t)

SpecWriter == InitWriter /\ [][NextWriter]_vars

\* ================================================================ SpecSink
\* The same writer with a sink whose Write can fail: one producer and the
\* reader.
SinkProducers == {<<"prod", 1>>}

InitSink ==
    /\ InitCommon
    /\ NoSearch
    /\ NoEnv
    /\ budget = 0
    /\ File = ""
    /\ WaitingFor = "nil"
    /\ LogStream = TRUE
    /\ safeWriter = 1
    /\ pc = [t \in WriterTasks |-> "idle"]
    /\ loc = [t \in WriterTasks |-> Loc0]

NextSink ==
    \/ \E t \in SinkProducers : ProducerWrite(t) \/ WriteStep(t) \/ W_SinkFail(t)
    \/ \E t \in Readers : ReaderRead(t) \/ ReaderReset(t)

SpecSink == InitSink /\ [][NextSink]_vars

\* C3: whenever no Write is in progress, fullText is the concatenation, in
\* append order, of the chunks appended since the last reset, and the
\* concatenation of lines equals fullText (empty chunks included).
C3_FullTextIsConcat ==
    \A w \in WriterIds :
        wmu[w] = None =>
            /\ buffer[w] = Concat(hist[w])
            /\ Concat(lines[w]) = buffer[w]

C3_Witness ==
    /\ wmu[1] = None
    /\ Len(hist[1]) = 2
    /\ hist[1][1] = <<>>
    /\ hist[1][2] = <<"a", "\n">>
    /\ \E t \in Readers : loc[t].idx = 1

\* C4: a reader of snapshot / lines / contains sees exactly the chunks whose
\* append has completed (never part of a chunk), and when both producers are
\* done and nothing was reset the text is an interleaving of the two
\* producers' chunk sequences that keeps each producer's order.
C4_ReadSeesWholeChunks ==
    \A t \in Readers :
        loc'[t] # loc[t] =>
            /\ loc'[t].op = "getOutput" => loc'[t].ret = Concat(hist[1])
            /\ loc'[t].op = "getLines" => loc'[t].ret = NonEmpty(hist[1])
            /\ loc'[t].op = "containsOutput" =>
                   loc'[t].ret = <<Contains(Concat(hist[1]), loc'[t].chunk)>>

C4_FinalInterleaving ==
    (/\ \A t \in Producers : pc[t] = "idle" /\ loc[t].n = MaxChunks
     /\ \A t \in Readers : loc[t].idx = 0)
    => /\ buffer[1] = Concat(hist[1])
       /\ \A t \in Producers : ChunksBy(hist[1], t) = NonEmpty(loc[t].ret)

C4_AtomicAppends ==
    [][DOMAIN pc = WriterTasks => C4_ReadSeesWholeChunks]_vars
    /\ [](DOMAIN pc = WriterTasks => C4_FinalInterleaving)

C4_Witness ==
    /\ DOMAIN pc = WriterTasks
    /\ \A t \in Producers : pc[t] = "idle" /\ loc[t].n = MaxChunks
    /\ \A t \in Readers : loc[t].idx = 0 /\ loc[t].op = "getOutput" /\ Len(loc[t].ret) = 4
    /\ hist[1] = <<ProducerChunk(<<"prod", 1>>), ProducerChunk(<<"prod", 2>>),
                   ProducerChunk(<<"prod", 1>>), ProducerChunk(<<"prod", 2>>)>>

\* ============================================================== SpecWait
\* One threadSafeWriter (id 1), a goroutine in waitForOutput(text, timeout)
\* and one that calls Write and reset beside it.  The clock is in
\* milliseconds and starts with the call; the steps of the loop take no
\* time, time.Sleep takes exactly its duration.
InitWait ==
    /\ InitCommon
    /\ NoSearch
    /\ NoEnv
    /\ budget = 0
    /\ File = ""
    /\ WaitingFor = "nil"
    /\ LogStream = FALSE
    /\ safeWriter = 1
    /\ pc = [t \in WaitTasks |-> "idle"]
    /\ loc = [t \in WaitTasks |-> Loc0]

\* history kept for the waiting goroutines after the text became txt: the
\* needle was in the text at some moment since the call (seen), and at some
\* moment since the call and before the deadline (intime)
NoteText(l, txt) ==
    [u \in DOMAIN l |->
        IF u \in Waiters /\ pc[u] \in {"wf_round", "wf_sleep"}
        THEN [l[u] EXCEPT
                !.seen = @ \/ Contains(txt, l[u].chunk),
                !.intime = @ \/ (Contains(txt, l[u].chunk) /\ now < l[u].deadline)]
        ELSE l[u]]

\* deadline := time.Now().Add(timeout)
WaitCall(t) ==
    /\ pc[t] = "idle"
    /\ \E text \in {<<"x">>, <<>>}, timeout \in 0..MaxTimeout :
         loc' = [loc EXCEPT ![t] =
                   [Loc0 EXCEPT !.w = 1, !.chunk = text,
                                !.deadline = now + timeout,
                                !.seen = Contains(buffer[1], text),
                                !.intime = Contains(buffer[1], text) /\ timeout > 0]]
    /\ pc' = [pc EXCEPT ![t] = "wf_round"]
    /\ UNCHANGED <<cfgVars, envVars, procVars, osVars, histVars, pmu, buffer, lines,
                   wmu, sink, readyChan, now, hist>>

\* the end of the sleep that starts at n
NextWake_Late(n) == n + 2 * PollInterval

NextWake(n) == n + PollInterval

\* for time.Now().Before(deadline) {
\*     if tsw.containsOutput(text) { return true }
\*     time.Sleep(10 * time.Millisecond) }
\* return false
WaitRound(t) ==
    /\ pc[t] = "wf_round"
    /\ WLockFree(loc[t].w)
    /\ IF now < loc[t].deadline
       THEN IF containsOutput(loc[t].w, loc[t].chunk)
            THEN /\ pc' = [pc EXCEPT ![t] = "done"]
                 /\ loc' = [loc EXCEPT ![t].ret = <<TRUE>>]
            ELSE /\ pc' = [pc EXCEPT ![t] = "wf_sleep"]
                 /\ loc' = [loc EXCEPT ![t].s = NextWake(now)]
       ELSE /\ pc' = [pc EXCEPT ![t] = "done"]
            /\ loc' = [loc EXCEPT ![t].ret = <<FALSE>>]
    /\ UNCHANGED <<cfgVars, envVars, procVars, osVars, histVars, pmu, buffer, lines,
                   wmu, sink, readyChan, now, hist>>

\* time.Sleep returns
WaitWake(t) ==
    /\ pc[t] = "wf_sleep"
    /\ now >= loc[t].s
    /\ pc' = [pc EXCEPT ![t] = "wf_round"]
    /\ UNCHANGED <<cfgVars, envVars, procVars, osVars, histVars, pmu, buffer, lines,
                   wmu, sink, readyChan, now, loc, hist>>

\* a millisecond passes while the waiting goroutine sleeps
Tick ==
    /\ \E t \in Waiters : pc[t] = "wf_sleep"
    /\ \A t \in Waiters : pc[t] # "wf_round"
    /\ \A t \in Waiters : pc[t] = "wf_sleep" => now < loc[t].s
    /\ now' = now + 1
    /\ UNCHANGED <<cfgVars, envVars, procVars, osVars, histVars, pmu, buffer, lines,
                   wmu, sink, readyChan, pc, loc, hist>>

\* another goroutine calls Write
WaitAppend(t) ==
    /\ loc[t].n < MaxAppends
    /\ \E p \in {<<"x", "\n">>, <<"a", "\n">>} :
         /\ Write(1, p)
         /\ loc' = NoteText([loc EXCEPT ![t].n = @ + 1], buffer'[1])
    /\ UNCHANGED <<cfgVars, envVars, procVars, osVars, histVars, pmu, readyChan, now, pc>>

\* another goroutine calls reset
WaitResetText(t) ==
    /\ loc[t].idx < MaxResets
    /\ W_Reset(1)
    /\ loc' = NoteText([loc EXCEPT ![t].idx = @ + 1], buffer'[1])
    /\ UNCHANGED <<cfgVars, envVars, procVars, osVars, histVars, pmu, wmu, sink,
                   readyChan, now, pc>>

NextWait ==
    \/ \E t \in Waiters : WaitCall(t) \/ WaitRound(t) \/ WaitWake(t)
    \/ \E t \in Appenders : WaitAppend(t) \/ WaitResetText(t)
    \/ Tick

SpecWait == InitWait /\ [][NextWait]_vars

\* The Go runtime lets time pass, ends a sleep when its duration is over and
\* runs the goroutine that can proceed.
SpecWaitLive ==
    /\ InitWait
    /\ [][NextWait]_vars
    /\ WF_vars(Tick)
    /\ \A t \in Waiters : WF_vars(WaitRound(t) \/ WaitWake(t))

\* ================================================================== Process
\* p.mu.Lock() can be taken
PMuFree_NoLock == TRUE

PMuFree == pmu = None

\* the value a pump goroutine of spawn k reads from p.safeWriter: the read is
\* not synchronised with a later Run's assignment, so it yields the writer of
\* its own Run or any writer assigned since
SafeWriterReads(k) == {w \in WriterIds : k <= w /\ w <= safeWriter}

\* the deferred p.mu.Unlock() and the return; only the latest result is kept
\* (an error is <<text>>, no error and no result are <<>>), with the name of
\* the method where a property is about what follows it
ReturnFrom(t, err, op) ==
    /\ pmu' = None
    /\ pc' = [pc EXCEPT ![t] = "idle"]
    /\ loc' = [u \in DOMAIN loc |->
                IF u = t THEN [Loc0 EXCEPT !.ret = err, !.op = op]
                ELSE IF u \in Clients /\ pc[u] = "idle" THEN Loc0
                ELSE loc[u]]

Return(t, err) == ReturnFrom(t, err, "")

\* Callers are interchangeable goroutines: of those that are in no method,
\* the one with the smallest number makes the next call.
MayCall(t) ==
    /\ pc[t] = "idle"
    /\ \A u \in Clients : u[2] < t[2] => pc[u] # "idle"

\* ---- accessors
\* what each accessor returns: nil-check of p.safeWriter, then the delegate
GetOutputResult == IF safeWriter # 0 THEN getOutput(safeWriter) ELSE <<>>

GetLinesResult == IF safeWriter # 0 THEN getLines(safeWriter) ELSE <<>>

ContainsOutputResult(text) ==
    IF safeWriter # 0 THEN containsOutput(safeWriter, text) ELSE FALSE

\* GetOutput, GetLines, ContainsOutput: p.mu.Lock(), the read, Unlock; the
\* value returned is the ...Result operator in the state the step is taken in
ReadAccessor(t) ==
    /\ MayCall(t)
    /\ PMuFree
    /\ safeWriter # 0 => WLockFree(safeWriter)
    /\ Return(t, <<>>)
    /\ UNCHANGED <<cfgVars, envVars, procVars, osVars, histVars, buffer, lines, wmu,
                   sink, readyChan, now, hist>>

\* ResetOutput: p.mu.Lock(); if p.safeWriter != nil { p.safeWriter.reset() }
ResetOutput(t) ==
    /\ MayCall(t)
    /\ PMuFree
    /\ IF safeWriter # 0
       THEN /\ W_Reset(safeWriter)
            /\ bySignal' = FALSE
       ELSE UNCHANGED <<buffer, lines, hist, bySignal>>
    /\ ReturnFrom(t, <<>>, "ResetOutput")
    /\ UNCHANGED <<cfgVars, envVars, procVars, osVars, kills, spawnedSinceStop, wmu,
                   sink, readyChan, now>>

\* ---- the accessors step by step (SpecAccess)
\* p.mu.Lock(); defer p.mu.Unlock(); if p.safeWriter != nil { delegate }:
\* the nil-check of an accessor, which goes on to the delegate holding p.mu
AccessorCall(t, op) ==
    /\ MayCall(t)
    /\ PMuFree
    /\ IF safeWriter = 0 THEN Return(t, <<>>)
       ELSE /\ pmu' = t
            /\ pc' = [pc EXCEPT ![t] = "a_deleg"]
            /\ loc' = [loc EXCEPT ![t] = [Loc0 EXCEPT !.op = op]]
    /\ UNCHANGED <<cfgVars, envVars, procVars, osVars, histVars, buffer, lines, wmu,
                   sink, readyChan, now, hist>>

\* GetOutput, GetLines, ContainsOutput up to the delegate; the value they
\* return is the ...Result operator in the state the delegate step is taken in
ReadAccessorCall(t) == AccessorCall(t, "read")

\* ResetOutput up to the delegate
ResetOutputCall(t) == AccessorCall(t, "reset")

\* p.safeWriter.getOutput() / getLines() / containsOutput(text) / reset(),
\* then the deferred p.mu.Unlock()
AccessorDelegate(t) ==
    /\ pc[t] = "a_deleg"
    /\ WLockFree(safeWriter)
    /\ IF loc[t].op = "reset"
       THEN /\ W_Reset(safeWriter)
            /\ bySignal' = FALSE
       ELSE UNCHANGED <<buffer, lines, hist, bySignal>>
    /\ Return(t, <<>>)
    /\ UNCHANGED <<cfgVars, envVars, procVars, osVars, kills, spawnedSinceStop, wmu,
                   sink, readyChan, now>>

\* ---- WaitForOutput
\* the return of a method that holds no lock
ReturnUnlocked(t, res) ==
    /\ pc' = [pc EXCEPT ![t] = "idle"]
    /\ loc' = [u \in DOMAIN loc |->
                IF u = t THEN [Loc0 EXCEPT !.ret = res]
                ELSE IF u \in Clients /\ pc[u] = "idle" THEN Loc0
                ELSE loc[u]]

\* the holder of p.mu once WaitForOutput has copied p.safeWriter
\* (p.mu.Unlock() comes before the delegate)
MuAfterCopy_Held(t) == t

MuAfterCopy(t) == None

\* p.mu.Lock(); safeWriter := p.safeWriter; p.mu.Unlock();
\* if safeWriter != nil { return safeWriter.waitForOutput(text, timeout) }
\* return false: the result of the call without CapturedOutput is recorded,
\* the result of the poll is followed in SpecWait
\* "return false" of a Process without CapturedOutput turned into "return true"
WaitForOutput_NilTrue(t) ==
    /\ MayCall(t)
    /\ PMuFree
    /\ IF safeWriter = 0
       THEN ReturnUnlocked(t, <<TRUE>>) /\ UNCHANGED pmu
       ELSE /\ pmu' = MuAfterCopy(t)
            /\ pc' = [pc EXCEPT ![t] = "wfo_poll"]
            /\ loc' = [loc EXCEPT ![t] = [Loc0 EXCEPT !.w = safeWriter,
                                                      !.chunk = <<"a">>]]
    /\ UNCHANGED <<cfgVars, envVars, procVars, osVars, histVars, buffer, lines, wmu,
                   sink, readyChan, now, hist>>

WaitForOutput(t) ==
    /\ MayCall(t)
    /\ PMuFree
    /\ IF safeWriter = 0
       THEN ReturnUnlocked(t, <<FALSE>>) /\ UNCHANGED pmu
       ELSE /\ pmu' = MuAfterCopy(t)
            /\ pc' = [pc EXCEPT ![t] = "wfo_poll"]
            /\ loc' = [loc EXCEPT ![t] = [Loc0 EXCEPT !.w = safeWriter,
                                                      !.chunk = <<"a">>]]
    /\ UNCHANGED <<cfgVars, envVars, procVars, osVars, histVars, buffer, lines, wmu,
                   sink, readyChan, now, hist>>

\* one round of waitForOutput that ends the loop: containsOutput(text) is
\* true and true is returned (WaitPollFound), or time.Now().Before(deadline)
\* is false and false is returned (WaitPollExpired).  The clock of the poll
\* is not followed here (SpecWait does that): the deadline may have passed
\* at any round.  A round that finds nothing and sleeps changes nothing.
WaitPollFound(t) ==
    /\ pc[t] = "wfo_poll"
    /\ WLockFree(loc[t].w)
    /\ containsOutput(loc[t].w, loc[t].chunk)
    /\ ReturnUnlocked(t, <<>>)
    /\ UNCHANGED <<cfgVars, envVars, procVars, osVars, histVars, pmu, buffer, lines,
                   wmu, sink, readyChan, now, hist>>

WaitPollExpired(t) ==
    /\ pc[t] = "wfo_poll"
    /\ ReturnUnlocked(t, <<>>)
    /\ UNCHANGED <<cfgVars, envVars, procVars, osVars, histVars, pmu, buffer, lines,
                   wmu, sink, readyChan, now, hist>>

\* ---- Run
\* a panic inside a method: the deferred p.mu.Unlock() runs and the calling
\* goroutine does not come back
Panic(t) ==
    /\ pmu' = None
    /\ pc' = [pc EXCEPT ![t] = "panicked"]
    /\ loc' = [loc EXCEPT ![t] = Loc0]

\* if p.Env == nil { p.Env = make(...) }
\* if p.EnvFile != "" { if err := p.loadEnvFile(); err != nil { return ... } }
EnvLoad_Unchecked ==
    [env |-> IF EnvFile = "" THEN Env ELSE loadEnvFile(Env).env, status |-> "ok"]

EnvLoad ==
    IF EnvFile = "" THEN [env |-> Env, status |-> "ok"] ELSE loadEnvFile(Env)

\* p.File == ""
NoFile_Never == FALSE

NoFile == File = ""

\* p.mu.Lock(); if p.running { return nil }; if p.File == "" { return error };
\* the environment file
RunCall(t) ==
    /\ MayCall(t)
    /\ PMuFree
    /\ IF running THEN Return(t, <<>>)
       ELSE IF NoFile THEN Return(t, <<"no file specified">>)
       ELSE /\ nruns + nemit < budget
            /\ EnvFile # "" => envReads < budget
            /\ CASE EnvLoad.status = "ok" ->
                       /\ pmu' = t
                       /\ pc' = [pc EXCEPT ![t] = "r_start"]
                       /\ loc' = [loc EXCEPT ![t] = Loc0]
                 [] EnvLoad.status = "error" ->
                       Return(t, <<"failed to load env file">>)
                 [] OTHER -> Panic(t)
    /\ IF ~running /\ ~NoFile /\ EnvFile # ""
       THEN Env' = EnvLoad.env /\ envReads' = envReads + 1
       ELSE UNCHANGED <<Env, envReads>>
    /\ UNCHANGED <<cfgVars, cmdEnv, procVars, osVars, histVars, buffer, lines, wmu,
                   sink, readyChan, now, hist>>

\* where Run goes once the pumps are started: if p.WaitingFor != nil the
\* diagnostic line and the select, else straight to the reaper and return
AfterStart_AlwaysWait(wf) == "r_diag"

AfterStart(wf) == IF wf # "nil" THEN "r_diag" ELSE "r_reap"

\* p.running once StdoutPipe, StderrPipe and cmd.Start have been called:
\* "return err" comes before "p.running = true"
RunningAfterStart_Always(started) == TRUE

RunningAfterStart(started) == started

\* newThreadSafeWriter, exec.Command, p.cmd.Env, StdoutPipe/StderrPipe,
\* cmd.Start, p.running = true, readyChan, the two pump goroutines
RunStart(t) ==
    /\ pc[t] = "r_start"
    /\ LET k == nruns + 1
       IN /\ nruns' = k
          /\ safeWriter' = k
          /\ bySignal' = FALSE
          /\ \/ \* StdoutPipe, StderrPipe or Start failed: return err
                /\ cmd' = [nil |-> FALSE, pid |-> 0]
                /\ proc' = [proc EXCEPT ![k] = "failed"]
                /\ Return(t, <<"spawn error">>)
                /\ running' = RunningAfterStart(FALSE)
                /\ UNCHANGED spawnedSinceStop
             \/ /\ cmd' = [nil |-> FALSE, pid |-> k]
                /\ proc' = [proc EXCEPT ![k] = "alive"]
                /\ running' = RunningAfterStart(TRUE)
                /\ spawnedSinceStop' = spawnedSinceStop + 1
                /\ pc' = [pc EXCEPT ![t] = AfterStart(WaitingFor),
                                    ![<<"out", k>>] = "p_scan",
                                    ![<<"err", k>>] = "p_scan"]
                /\ loc' = [loc EXCEPT ![t].s = k]
                /\ UNCHANGED pmu
    /\ \E ord \in Orderings(DOMAIN Env) : cmdEnv' = CmdEnvFor(environ, Env, ord)
    /\ UNCHANGED <<cfgVars, Env, envReads, pipe, nemit, reaper, kills, buffer,
                   lines, wmu, sink, readyChan, now, hist>>

\* p.safeWriter.Write([]byte("[runner] Waiting for the readiness.\n")), then
\* the select statement is entered and time.After(30 * time.Second) evaluated
RunDiag_Silent(t) ==
    /\ pc[t] = "r_diag"
    /\ loc' = [loc EXCEPT ![t].deadline = ReadyTimeout]
    /\ now' = 0
    /\ pc' = [pc EXCEPT ![t] = "r_select"]
    /\ UNCHANGED <<cfgVars, envVars, procVars, osVars, histVars, pmu, readyChan,
                   buffer, lines, wmu, sink, hist>>

RunDiag(t) ==
    /\ pc[t] = "r_diag"
    /\ Write(safeWriter, DiagLine)
    /\ loc' = [loc EXCEPT ![t].deadline = ReadyTimeout]
    /\ now' = 0
    /\ pc' = [pc EXCEPT ![t] = "r_select"]
    /\ UNCHANGED <<cfgVars, envVars, procVars, osVars, histVars, pmu, readyChan>>

\* select { case <-readyChan: case <-time.After(30 * time.Second): }
RunSelectReady(t) ==
    /\ pc[t] = "r_select"
    /\ readyChan[loc[t].s] > 0
    /\ readyChan' = [readyChan EXCEPT ![loc[t].s] = @ - 1]
    /\ loc' = [loc EXCEPT ![t].via = "ready"]
    /\ bySignal' = TRUE
    /\ pc' = [pc EXCEPT ![t] = "r_reap"]
    /\ UNCHANGED <<cfgVars, envVars, procVars, osVars, kills, spawnedSinceStop, pmu,
                   buffer, lines, wmu, sink, now, hist>>

\* the timer channel of time.After has a value
TimerFired_Early(deadline) == TRUE

TimerFired(deadline) == now >= deadline

RunSelectTimeout(t) ==
    /\ pc[t] = "r_select"
    /\ TimerFired(loc[t].deadline)
    /\ loc' = [loc EXCEPT ![t].via = "timeout"]
    /\ pc' = [pc EXCEPT ![t] = "r_reap"]
    /\ UNCHANGED <<cfgVars, envVars, procVars, osVars, histVars, pmu, buffer, lines,
                   wmu, sink, readyChan, now, hist>>

\* go func() { _ = p.cmd.Wait() }(); return nil
RunReap(t) ==
    /\ pc[t] = "r_reap"
    /\ reaper' = [reaper EXCEPT ![loc[t].s] = "waiting"]
    /\ Return(t, <<>>)
    /\ now' = 0
    /\ UNCHANGED <<cfgVars, envVars, procVars, proc, pipe, nemit, histVars,
                   buffer, lines, wmu, sink, readyChan, hist>>

\* ---- the spawned program
\* the program's death (kill or exit): what it had written and the pumps have
\* not read yet stays in the pipes
Die(k) ==
    \E po, pe \in 0..budget :
        /\ nruns + nemit + po + pe <= budget
        /\ nemit' = nemit + po + pe
        /\ pipe' = [pipe EXCEPT ![<<"out", k>>] = po, ![<<"err", k>>] = pe]
        /\ proc' = [proc EXCEPT ![k] = "dead"]

\* ---- Stop
\* !p.running || p.cmd == nil
StopIsNoop_CmdOnly == cmd.nil

StopIsNoop == ~running \/ cmd.nil

\* syscall.Getpgid(pid) succeeds while the process exists, running or not
\* yet waited for; once cmd.Wait has collected it the pid is gone (ESRCH)
PgidResolves(k) == reaper[k] # "done"

\* the target of the kill: -pgid if err == nil, else the direct child;
\* none if p.cmd.Process == nil
KillTarget(k) ==
    IF k = 0 THEN "" ELSE IF PgidResolves(k) THEN "group" ELSE "child"

\* p.mu.Lock(); if !p.running || p.cmd == nil { return };
\* pgid, err := syscall.Getpgid(p.cmd.Process.Pid)
StopCall(t) ==
    /\ MayCall(t)
    /\ PMuFree
    /\ IF StopIsNoop THEN Return(t, <<>>)
       ELSE /\ pmu' = t
            /\ pc' = [pc EXCEPT ![t] = "s_kill"]
            /\ loc' = [loc EXCEPT ![t] = [Loc0 EXCEPT !.via = KillTarget(cmd.pid)]]
    /\ UNCHANGED <<cfgVars, envVars, procVars, osVars, histVars, buffer, lines, wmu,
                   sink, readyChan, now, hist>>

\* the errors the kill can return: none for a running process, any for one
\* that has exited
KillErrors(k) == IF proc[k] = "alive" THEN {FALSE} ELSE BOOLEAN

\* p.running = false, after "_ = syscall.Kill(...)" / "_ = ...Kill()"
RunningAfterKill_KeepOnError(err) == err

RunningAfterKill(err) == FALSE

\* syscall.Kill(-pgid, SIGKILL) or p.cmd.Process.Kill(); p.running = false
StopKill(t) ==
    /\ pc[t] = "s_kill"
    /\ IF cmd.pid # 0
       THEN /\ kills' = [kills EXCEPT ![cmd.pid] = @ + 1]
            /\ IF proc[cmd.pid] = "alive" THEN Die(cmd.pid)
               ELSE UNCHANGED <<proc, pipe, nemit>>
            /\ \E err \in KillErrors(cmd.pid) : running' = RunningAfterKill(err)
       ELSE /\ UNCHANGED <<kills, proc, pipe, nemit>>
            /\ running' = FALSE
    /\ Return(t, <<>>)
    /\ spawnedSinceStop' = 0
    /\ UNCHANGED <<cfgVars, envVars, cmd, safeWriter, nruns,
                   reaper, bySignal, buffer, lines, wmu, sink, readyChan, now,
                   hist>>

\* ---- pump goroutines: scanner.Scan(); handleLine(scanner.Text() + "\n")
\* scanner.Scan() returns false (the channel is at end of file, or its read
\* end was closed by cmd.Wait): the goroutine returns.  The condition is
\* stable, so the pump counts as terminated from the moment it holds.
PumpTerminated(t) ==
    /\ pc[t] = "p_scan"
    /\ \/ reaper[t[2]] = "done"
       \/ pipe[t] = 0 /\ proc[t[2]] = "dead"

\* a line is there to read: the live program writes one, or a dead one
\* left one in the pipe; line is scanner.Text() + "\n", n the number of
\* lines this pump has read where the lines are numbered
PumpScanLine(t, line, n) ==
    /\ pc[t] = "p_scan"
    /\ reaper[t[2]] # "done"
    /\ IF proc[t[2]] = "alive"
       THEN /\ nruns + nemit < budget
            /\ nemit' = nemit + 1
            /\ UNCHANGED pipe
       ELSE /\ pipe[t] > 0
            /\ pipe' = [pipe EXCEPT ![t] = @ - 1]
            /\ UNCHANGED nemit
    /\ \E w \in SafeWriterReads(t[2]) :
         /\ Write(w, line)
         /\ loc' = [loc EXCEPT ![t].w = w, ![t].n = n,
                      ![t].sat = /\ WaitingForPred(WaitingFor, buffer'[w])
                                 /\ ~SatisfiedBefore(WaitingFor, hist[w])]
    /\ pc' = [pc EXCEPT ![t] = "p_eval"]
    /\ UNCHANGED <<cfgVars, envVars, procVars, proc, reaper, histVars,
                   pmu, readyChan, now>>

\* every line of a channel has the same text
PumpScan(t) == PumpScanLine(t, Append(LineText(t[1]), "\n"), 0)

\* the program numbers its lines: the i-th line it writes to a channel, which
\* is the i-th line the pump finds there, is the channel's letter and i
Digits == <<"1", "2", "3", "4", "5", "6", "7", "8", "9">>

NumberedLine(ch, i) == <<LineText(ch)[1], Digits[i], "\n">>

PumpScanNumbered(t) ==
    PumpScanLine(t, NumberedLine(t[1], loc[t].n + 1), loc[t].n + 1)

\* if <predicate holds> { select { case readyChan <- true: default: } }
AfterEval_NoSignal(r) == "p_scan"

AfterEval(r) == IF r THEN "p_send" ELSE "p_scan"

\* p.WaitingFor != nil && p.WaitingFor(p.safeWriter.getOutput())
PumpEval(t) ==
    /\ pc[t] = "p_eval"
    /\ IF WaitingFor = "nil"
       THEN /\ pc' = [pc EXCEPT ![t] = "p_scan"]
            /\ loc' = [loc EXCEPT ![t] = [Loc0 EXCEPT !.n = loc[t].n]]
       ELSE \E w \in SafeWriterReads(t[2]) :
               /\ WLockFree(w)
               /\ LET r == WaitingForPred(WaitingFor, getOutput(w))
                  IN /\ loc' = [loc EXCEPT ![t] = [Loc0 EXCEPT !.n = loc[t].n]]
                     /\ pc' = [pc EXCEPT ![t] = AfterEval(r)]
    /\ UNCHANGED <<cfgVars, envVars, procVars, osVars, histVars, pmu, buffer, lines,
                   wmu, sink, readyChan, now, hist>>

\* select { case readyChan <- true: default: } on a channel of capacity 1
\* readyChan := make(chan bool, 1)
ReadyChanCap == 1

CanSend_Unbounded(n) == TRUE

\* the send on a channel without buffer while nobody receives
CanSend_Unbuffered(n) == FALSE

CanSend(n) == n < ReadyChanCap

PumpSend_Rendezvous(t) ==
    /\ pc[t] = "p_send"
    /\ \E c \in Clients : pc[c] = "r_select" /\ loc[c].s = t[2]
    /\ readyChan' = [readyChan EXCEPT ![t[2]] = IF CanSend(@) THEN @ + 1 ELSE @]
    /\ pc' = [pc EXCEPT ![t] = "p_scan"]
    /\ UNCHANGED <<cfgVars, envVars, procVars, osVars, histVars, pmu, buffer, lines,
                   wmu, sink, now, loc, hist>>

PumpSend(t) ==
    /\ pc[t] = "p_send"
    /\ readyChan' = [readyChan EXCEPT ![t[2]] = IF CanSend(@) THEN @ + 1 ELSE @]
    /\ pc' = [pc EXCEPT ![t] = "p_scan"]
    /\ UNCHANGED <<cfgVars, envVars, procVars, osVars, histVars, pmu, buffer, lines,
                   wmu, sink, now, loc, hist>>

\* ---- natural exit and the reaper
ProcExit(k) ==
    /\ proc[k] = "alive"
    /\ Die(k)
    /\ UNCHANGED <<cfgVars, envVars, procVars, reaper, histVars,
                   pmu, buffer, lines, wmu, sink, readyChan, now, pc, loc, hist>>

\* p.cmd.Wait(): returns once the process has exited, and closes the read
\* ends of the pipes, so that lines still unread are no longer delivered
ReaperWait_ClearsRunning(k) ==
    /\ reaper[k] = "waiting"
    /\ proc[k] = "dead"
    /\ reaper' = [reaper EXCEPT ![k] = "done"]
    /\ running' = FALSE
    /\ UNCHANGED <<cfgVars, envVars, cmd, safeWriter, nruns, proc, pipe, nemit,
                   histVars, pmu, buffer, lines, wmu, sink, readyChan, now, pc,
                   loc, hist>>

ReaperWait(k) ==
    /\ reaper[k] = "waiting"
    /\ proc[k] = "dead"
    /\ reaper' = [reaper EXCEPT ![k] = "done"]
    /\ UNCHANGED <<cfgVars, envVars, procVars, proc, pipe, nemit, histVars, pmu,
                   buffer, lines, wmu, sink, readyChan, now, pc, loc, hist>>

\* time passes until the next pending timer
AdvanceTime ==
    /\ \E t \in Clients :
        /\ pc[t] = "r_select"
        /\ loc[t].deadline > now
        /\ now' = loc[t].deadline
    /\ UNCHANGED <<cfgVars, envVars, procVars, osVars, histVars, pmu, buffer, lines,
                   wmu, sink, readyChan, pc, loc, hist>>

Init ==
    /\ InitCommon
    /\ NoSearch
    /\ NoEnv
    /\ budget = MaxEvents
    /\ File \in {"", "main.go"}
    /\ WaitingFor \in {"nil", "hasA", "endsA"}
    /\ LogStream = TRUE
    /\ safeWriter = 0
    /\ pc = [t \in ProcTasks |-> IF t \in Clients THEN "idle" ELSE "p_none"]
    /\ loc = [t \in ProcTasks |-> Loc0]

\* shorter behaviours, with a predicate that matches nothing the program
\* prints or a substring test
InitLive ==
    /\ InitCommon
    /\ NoSearch
    /\ NoEnv
    /\ budget = LiveEvents
    /\ File = "main.go"
    /\ WaitingFor \in {"never", "hasA"}
    /\ LogStream = TRUE
    /\ safeWriter = 0
    /\ pc = [t \in ProcTasks |-> IF t \in Clients THEN "idle" ELSE "p_none"]
    /\ loc = [t \in ProcTasks |-> Loc0]

ClientStep(t) ==
    \/ ReadAccessor(t) \/ ResetOutput(t)
    \/ RunCall(t) \/ RunStart(t) \/ RunDiag(t)
    \/ RunSelectReady(t) \/ RunSelectTimeout(t) \/ RunReap(t)
    \/ StopCall(t) \/ StopKill(t)

PumpStep(t) == PumpScan(t) \/ PumpEval(t) \/ PumpSend(t)

Next ==
    \/ \E t \in Clients : ClientStep(t)
    \/ \E t \in Pumps : PumpStep(t)
    \/ \E k \in RunIds : ProcExit(k) \/ ReaperWait(k)
    \/ AdvanceTime

Spec == Init /\ [][Next]_vars

\* The Go runtime delivers a timer once its duration has passed and runs a
\* goroutine that can proceed: time advances to a pending deadline, and the
\* goroutine inside Run takes the steps that are open to it.
SpecLive ==
    /\ InitLive
    /\ [][Next]_vars
    /\ WF_vars(AdvanceTime)
    /\ \A t \in Clients : WF_vars(RunDiag(t) \/ RunSelectTimeout(t) \/ RunReap(t))

\* The scheduler also runs every pump goroutine that can take a step and the
\* reaper goroutine once its process has exited.
SpecDrain ==
    /\ SpecLive
    /\ \A t \in Pumps : WF_vars(PumpStep(t))
    /\ \A k \in RunIds : WF_vars(ReaperWait(k))

\* ============================================================= SpecAccess
\* The same Process with the accessors taken step by step and WaitForOutput,
\* on shorter behaviours.
InitAccess ==
    /\ InitCommon
    /\ NoSearch
    /\ NoEnv
    /\ budget = AccessEvents
    /\ File = "main.go"
    /\ WaitingFor \in {"nil", "hasA"}
    /\ LogStream = TRUE
    /\ safeWriter = 0
    /\ pc = [t \in ProcTasks |-> IF t \in Clients THEN "idle" ELSE "p_none"]
    /\ loc = [t \in ProcTasks |-> Loc0]

AccessStep(t) ==
    \/ ReadAccessorCall(t) \/ ResetOutputCall(t) \/ AccessorDelegate(t)
    \/ WaitForOutput(t) \/ WaitPollFound(t) \/ WaitPollExpired(t)
    \/ RunCall(t) \/ RunStart(t) \/ RunDiag(t)
    \/ RunSelectReady(t) \/ RunSelectTimeout(t) \/ RunReap(t)
    \/ StopCall(t) \/ StopKill(t)

NextAccess ==
    \/ \E t \in Clients : AccessStep(t)
    \/ \E t \in Pumps : PumpStep(t)
    \/ \E k \in RunIds : ProcExit(k) \/ ReaperWait(k)
    \/ AdvanceTime

SpecAccess == InitAccess /\ [][NextAccess]_vars

\* ============================================================== SpecOrder
\* One Run, without a readiness predicate, of a program that numbers the
\* lines it writes to each channel; Stop is not called.
InitOrder ==
    /\ InitCommon
    /\ NoSearch
    /\ NoEnv
    /\ budget = OrderEvents
    /\ File = "main.go"
    /\ WaitingFor = "nil"
    /\ LogStream = TRUE
    /\ safeWriter = 0
    /\ pc = [t \in ProcTasks |-> IF t \in Clients THEN "idle" ELSE "p_none"]
    /\ loc = [t \in ProcTasks |-> Loc0]

OrderStep(t) == RunCall(t) \/ RunStart(t) \/ RunReap(t)

NextOrder ==
    \/ \E t \in Clients : OrderStep(t)
    \/ \E t \in Pumps : PumpScanNumbered(t) \/ PumpEval(t)
    \/ \E k \in RunIds : ProcExit(k) \/ ReaperWait(k)

SpecOrder == InitOrder /\ [][NextOrder]_vars

\* ================================================================ SpecEnv
\* Run and Stop of a program that prints nothing, with the environment in
\* full: an explicit mapping, an environment file and inherited variables
\* over the keys K and N.
EnvFileLines ==
    {<<"K", "=", "f">>,
     <<"N", "=", "f">>,
     <<"N", "=", "g">>,
     <<"#", "N", "=", "f">>,
     <<>>,
     <<"N">>,
     <<" ", "N", " ", "=", " ", "\"", "g", "\"", " ">>,
     <<"N", "=", "f", "=", "g">>,
     <<"N", "=", "'">>}

EnvFileTexts ==
    UNION {[1..n -> EnvFileLines] : n \in 0..MaxFileLines}

InitEnv ==
    /\ InitCommon
    /\ NoSearch
    /\ budget = EnvEvents
    /\ File \in {"", "main.go"}
    /\ WaitingFor = "nil"
    /\ LogStream = TRUE
    /\ \/ EnvFile = "" /\ envFileText = <<>> /\ envFileErr = "none"
       \/ EnvFile = ".env" /\ envFileText = <<>> /\ envFileErr = "open"
       \/ EnvFile = ".env" /\ envFileText \in EnvFileTexts
                           /\ envFileErr \in {"none", "read"}
    /\ environ \in {<<>>, <<<<"K", "=", "i">>>>, <<<<"N", "=", "i">>>>,
                    <<<<"K", "=", "i">>, <<"N", "=", "i">>>>}
    /\ Env \in {<<>>, [k \in {<<"K">>} |-> <<"e">>]}
    /\ safeWriter = 0
    /\ pc = [t \in ProcTasks |-> IF t \in Clients THEN "idle" ELSE "p_none"]
    /\ loc = [t \in ProcTasks |-> Loc0]

EnvStep(t) ==
    \/ RunCall(t) \/ RunStart(t) \/ RunReap(t)
    \/ StopCall(t) \/ StopKill(t)

NextEnv ==
    \/ \E t \in Clients : EnvStep(t)
    \/ \E k \in RunIds : ProcExit(k) \/ ReaperWait(k)

SpecEnv == InitEnv /\ [][NextEnv]_vars

\* =============================================================== SpecRoot
\* workdir.ProjectRoot.  A directory is its depth below the filesystem root;
\* goMod holds the depths, among the working directory and its ancestors,
\* where os.Stat(dir/go.mod) succeeds.  A returned dir of -1 stands for "".
GoModSets(c) ==
    {{}} \cup {{g} : g \in 0..c} \cup {{g, h} : g, h \in 0..c}

InitRoot ==
    /\ InitCommon
    /\ NoEnv
    /\ budget = 0
    /\ File = ""
    /\ WaitingFor = "nil"
    /\ LogStream = FALSE
    /\ safeWriter = 0
    /\ pc = <<>>
    /\ loc = <<>>
    /\ cwd \in 0..MaxDepth
    /\ goMod \in GoModSets(cwd)
    /\ dir = 0
    /\ iter = 0
    /\ rootPc = "call"
    /\ result = [dir |-> -1, err |-> ""]

\* filepath.Dir(dir): the parent, and the root for the root
Parent(d) == IF d = 0 THEN 0 ELSE d - 1

\* the condition of the for loop: i < MaxSearchIterations
SearchGoesOn_OneMore(i) == i <= MaxSearchIterations

SearchGoesOn(i) == i < MaxSearchIterations

\* return "", fmt.Errorf("go.mod not found after %d iterations", ...)
NotFound == [dir |-> -1, err |-> "go.mod not found after 30 iterations"]

rootUnchanged ==
    UNCHANGED <<budget, File, WaitingFor, LogStream, EnvFile, envFileText,
                envFileErr, environ, envVars, procVars, osVars, histVars, pmu,
                buffer, lines, wmu, sink, readyChan, now, pc, loc, hist>>

\* os.Getwd() and filepath.EvalSymlinks(dir): either fails and ProjectRoot
\* returns that error, or dir is the resolved working directory
ProjectRootCall ==
    /\ rootPc = "call"
    /\ \/ /\ \E e \in {"failed to get current directory",
                        "failed to resolve symlinks"} :
                result' = [dir |-> -1, err |-> e]
          /\ rootPc' = "done"
          /\ UNCHANGED dir
       \/ /\ dir' = cwd
          /\ rootPc' = "loop"
          /\ UNCHANGED result
    /\ UNCHANGED <<cwd, goMod, iter>>
    /\ rootUnchanged

\* one round of the loop: go.mod is there and dir is returned; or dir is the
\* root and the loop is left; or dir becomes its parent and i++
ProjectRootIter ==
    /\ rootPc = "loop"
    /\ SearchGoesOn(iter)
    /\ IF dir \in goMod
       THEN /\ result' = [dir |-> dir, err |-> ""]
            /\ rootPc' = "done"
            /\ UNCHANGED <<dir, iter>>
       ELSE IF Parent(dir) = dir
            THEN /\ result' = NotFound
                 /\ rootPc' = "done"
                 /\ UNCHANGED <<dir, iter>>
            ELSE /\ dir' = Parent(dir)
                 /\ iter' = iter + 1
                 /\ UNCHANGED <<result, rootPc>>
    /\ UNCHANGED <<cwd, goMod>>
    /\ rootUnchanged

\* the loop condition is false: the error after the loop
ProjectRootGiveUp ==
    /\ rootPc = "loop"
    /\ ~SearchGoesOn(iter)
    /\ result' = NotFound
    /\ rootPc' = "done"
    /\ UNCHANGED <<cwd, goMod, dir, iter>>
    /\ rootUnchanged

NextRoot == ProjectRootCall \/ ProjectRootIter \/ ProjectRootGiveUp

SpecRoot == InitRoot /\ [][NextRoot]_vars

\* =================================================================== claims
AllIdle == \A c \in Clients : pc[c] = "idle"

\* the client, if any, that is inside the Run which spawned k and has not
\* left the readiness wait
RunWaiting(k) ==
    \E c \in Clients : pc[c] \in {"r_diag", "r_select"} /\ loc[c].s = k

\* C1: with no Stop in between, at most one process is spawned; a Run that
\* finds running = true returns no error, spawns nothing, replaces no
\* CapturedOutput and starts no pump.
C1_RunNoopStep ==
    \A t \in Clients :
        (running /\ RunCall(t)) =>
            /\ loc'[t].ret = <<>>
            /\ UNCHANGED <<running, cmd, safeWriter, nruns, proc, buffer,
                           lines, sink, readyChan, reaper>>
            /\ \A q \in Pumps : pc'[q] = pc[q]

C1_RunIdempotent ==
    [](spawnedSinceStop <= 1) /\ [][C1_RunNoopStep]_vars

C1_Witness ==
    /\ AllIdle
    /\ running
    /\ nruns = 2
    /\ proc[1] = "dead" /\ proc[2] = "alive"
    /\ spawnedSinceStop = 1

\* C2: for each successful spawn the kill is issued at most once, however
\* many Stops are called; a Stop that finds running = false or no process
\* handle changes no state and sends no signal.
C2_StopNoopStep ==
    \A t \in Clients :
        ((~running \/ cmd.nil) /\ StopCall(t)) =>
            UNCHANGED <<running, cmd, safeWriter, nruns, proc, pipe, kills,
                        buffer, lines, sink, readyChan, reaper, pmu>>

C2_StopIdempotent ==
    [](\A k \in RunIds : kills[k] <= 1) /\ [][C2_StopNoopStep]_vars

C2_Witness ==
    /\ AllIdle
    /\ ~running
    /\ ~cmd.nil /\ cmd.pid = 1
    /\ kills[1] = 1
    /\ proc[1] = "dead"

\* C5: with a predicate that never evaluates true, Run leaves the readiness
\* wait only through the timer, not before 30 seconds have passed (whatever
\* the program and its output channels do meanwhile), and it does leave it:
\* it then returns no error.
C5_OnlyByTimeout ==
    \A t \in Clients :
        (WaitingFor = "never" /\ pc[t] = "r_reap") =>
            /\ loc[t].via = "timeout"
            /\ now >= ReadyTimeout

C5_ReturnStep ==
    \A t \in Clients :
        (pc[t] = "r_reap" /\ pc'[t] # "r_reap") =>
            pc'[t] = "idle" /\ loc'[t].ret = <<>>

C5_TimeoutReturns ==
    /\ []C5_OnlyByTimeout
    /\ [][C5_ReturnStep]_vars
    /\ \A t \in Clients :
          (WaitingFor = "never" /\ pc[t] = "r_select") ~> (pc[t] = "idle")

C5_Witness ==
    /\ WaitingFor = "never"
    /\ \E t \in Clients : pc[t] = "r_reap" /\ loc[t].via = "timeout"
    /\ proc[1] = "dead"
    /\ \A q \in {<<"out", 1>>, <<"err", 1>>} : PumpTerminated(q)
    /\ buffer[1] = <<"w", "\n", "b", "\n">>

\* C6: once Run with a substring predicate has returned through the
\* readiness signal, ContainsOutput(text) is true and GetOutput contains the
\* text, until ResetOutput or the next Run that replaces the output.
C6_ReadyImpliesText ==
    (bySignal /\ WaitingFor = "hasA") =>
        /\ ContainsOutputResult(<<"a">>)
        /\ Contains(GetOutputResult, <<"a">>)

C6_Witness ==
    /\ bySignal
    /\ WaitingFor = "hasA"
    /\ AllIdle
    /\ running
    /\ GetOutputResult = <<"w", "\n", "a", "\n">>

\* C7: the sink has received a chunk before the predicate is evaluated for
\* it, so when Run returns through the readiness signal the chunk that made
\* the predicate true is in the sink.
C7_SinkBeforeSignal ==
    /\ \A t \in Pumps :
         pc[t] = "p_eval" =>
            \E i \in 1..Len(sink) :
                sink[i] = [w |-> loc[t].w, chunk |-> Append(LineText(t[1]), "\n")]
    /\ (bySignal /\ WaitingFor \in {"hasA", "endsA"}) =>
            \E i \in 1..Len(sink) :
                sink[i] = [w |-> safeWriter, chunk |-> <<"a", "\n">>]

C7_Witness ==
    /\ bySignal
    /\ LogStream
    /\ \E c \in Clients : pc[c] = "r_reap" /\ loc[c].via = "ready"
    /\ sink = <<[w |-> 1, chunk |-> <<"a", "\n">>], [w |-> 1, chunk |-> DiagLine]>>

\* C8 as stated: whatever the predicate and the interleaving, the pump whose
\* append first made the accumulated text satisfy the predicate goes on to
\* raise the readiness signal before it reads another line.
C8_Original_Step ==
    \A t \in Pumps :
        (pc[t] = "p_eval" /\ loc[t].sat /\ pc'[t] # "p_eval") => pc'[t] = "p_send"

C8_Original == [][C8_Original_Step]_vars

\* C8 amended: for a predicate that keeps holding when more text is appended
\* (a substring test), and while the Run that spawned the process is still in
\* its readiness wait, the pump whose append first made the accumulated text
\* satisfy the predicate raises the signal before it reads another line.
C8_Amended_Step ==
    \A t \in Pumps :
        (/\ pc[t] = "p_eval" /\ loc[t].sat /\ pc'[t] # "p_eval"
         /\ WaitingFor = "hasA"
         /\ RunWaiting(t[2]))
        => pc'[t] = "p_send"

C8_FirstMatchSignals == [][C8_Amended_Step]_vars

C8_Witness ==
    /\ WaitingFor = "hasA"
    /\ pc[<<"out", 1>>] = "p_send"
    /\ pc[<<"err", 1>>] = "p_eval"
    /\ RunWaiting(1)
    /\ buffer[1] = <<"a", "\n", "b", "\n">>

\* C9: raising the readiness signal never blocks: a pump that is about to
\* send can always take the step, it then goes on to its next line, and the
\* channel never holds more than one notification.
C9_SendStep ==
    \A t \in Pumps :
        (pc[t] = "p_send" /\ pc'[t] # "p_send") =>
            /\ pc'[t] = "p_scan"
            /\ readyChan'[t[2]] = 1

C9_SignalNeverBlocks ==
    /\ [](\A k \in RunIds : readyChan[k] <= 1)
    /\ [](\A t \in Pumps : pc[t] = "p_send" => ENABLED PumpSend(t))
    /\ [][C9_SendStep]_vars

C9_Witness ==
    /\ AllIdle
    /\ WaitingFor = "hasA"
    /\ readyChan[1] = 1
    /\ pc[<<"out", 1>>] = "p_send"
    /\ buffer[1] = <<"w", "\n", "a", "\n", "a", "\n">>

\* C10 as stated: the process lock is never held across the readiness wait,
\* so while Run is blocked another task can take the lock.
C10_Original ==
    \A t \in Clients : pc[t] = "r_select" => PMuFree

\* C11 as stated: every passthrough accessor has released the process lock
\* before it delegates to the CapturedOutput.
C11_Original ==
    \A t \in Clients : pc[t] = "a_deleg" => pmu # t

\* C11 amended: WaitForOutput holds the process lock only to copy the
\* reference to the CapturedOutput and polls without it, so that while a task
\* polls, Run, Stop and the accessors of other tasks can take the lock;
\* GetOutput, GetLines, ContainsOutput and ResetOutput keep the lock until
\* their delegate call has returned.
C11_PollHoldsNoLock ==
    \A t \in Clients : pc[t] = "wfo_poll" => pmu # t

C11_OthersNotBlocked ==
    (/\ \E t \in Clients : pc[t] = "wfo_poll"
     /\ \A u \in Clients : pc[u] \in {"idle", "wfo_poll"})
    => \A u \in Clients :
          MayCall(u) =>
            /\ ENABLED StopCall(u)
            /\ ENABLED ReadAccessorCall(u)
            /\ ENABLED ResetOutputCall(u)
            /\ ENABLED WaitForOutput(u)
            /\ (running \/ nruns + nemit < budget) => ENABLED RunCall(u)

C11_WaitReleasesLock ==
    /\ []C11_PollHoldsNoLock
    /\ []C11_OthersNotBlocked
    /\ [](\A t \in Clients : pc[t] = "a_deleg" => pmu = t)

C11_Witness ==
    \E t, u \in Clients :
        /\ pc[t] = "wfo_poll"
        /\ pc[u] = "s_kill"
        /\ pmu = u
        /\ loc[t].w = safeWriter

\* C12 as stated: waitFor returns true whenever an append made the needle
\* part of the text before the timeout elapsed and the text was not reset
\* away, also when that happened between the last poll and the deadline.
C12_Original_Step ==
    \A t \in Waiters :
        (/\ pc[t] = "wf_round" /\ pc'[t] = "done"
         /\ loc[t].intime
         /\ Contains(buffer[loc[t].w], loc[t].chunk))
        => loc'[t].ret = <<TRUE>>

C12_Original == [][C12_Original_Step]_vars

\* C13: waitFor returns true only if the needle was part of the text at some
\* moment between the call and the return; if it never was, waitFor returns
\* false.
C13_TrueOnlyIfSeen ==
    \A t \in Waiters :
        pc[t] = "done" =>
            /\ loc[t].ret = <<TRUE>> => loc[t].seen
            /\ ~loc[t].seen => loc[t].ret = <<FALSE>>

C13_Witness ==
    \E t \in Waiters :
        /\ pc[t] = "done"
        /\ loc[t].ret = <<TRUE>>
        /\ loc[t].chunk = <<"x">>
        /\ now = PollInterval
        /\ buffer[1] = <<"a", "\n", "x", "\n">>

\* C14: waitFor terminates whatever is appended or reset beside it: it
\* returns false only once the timeout has elapsed, and it has returned
\* before one poll interval has passed after the deadline.
C14_ReturnTime ==
    \A t \in Waiters :
        pc[t] = "done" =>
            /\ now < loc[t].deadline + PollInterval
            /\ loc[t].ret = <<FALSE>> => now >= loc[t].deadline

C14_WaitTerminates ==
    /\ []C14_ReturnTime
    /\ \A t \in Waiters : (pc[t] \in {"wf_round", "wf_sleep"}) ~> (pc[t] = "done")

C14_Witness ==
    \E t \in Waiters, a \in Appenders :
        /\ pc[t] = "done"
        /\ loc[t].ret = <<FALSE>>
        /\ loc[t].chunk = <<"x">>
        /\ loc[t].deadline = 12
        /\ now = 2 * PollInterval
        /\ loc[a].idx = 1
        /\ loc[a].n = 2

\* C15: contains(needle) is true exactly when the needle is a substring of
\* what snapshot() returns in the same state, i.e. when the snapshot is some
\* prefix, then the needle, then some suffix; for the empty needle and the
\* empty buffer too.
C15_Needles ==
    {<<>>, <<"x">>, <<"\n", "x">>, <<"a", "a">>, <<"x", "\n", "a", "\n">>,
     <<"a", "\n", "x", "\n", "a">>}

C15_IsSubstring(needle, txt) ==
    \E i, j \in 0..Len(txt) :
        /\ i <= j
        /\ txt = SubSeq(txt, 1, i) \o needle \o SubSeq(txt, j + 1, Len(txt))

C15_ContainsIffSubstring ==
    \A w \in WriterIds, needle \in C15_Needles :
        containsOutput(w, needle) <=> C15_IsSubstring(needle, getOutput(w))

C15_Witness ==
    /\ \E t \in Waiters :
          /\ pc[t] = "done"
          /\ loc[t].chunk = <<>>
          /\ loc[t].ret = <<TRUE>>
    /\ \E a \in Appenders : loc[a].idx = 1
    /\ getOutput(1) = <<>>
    /\ containsOutput(1, <<>>)
    /\ ~containsOutput(1, <<"x">>)

\* C16: right after reset, snapshot is the empty string and lines is the
\* empty sequence, whatever had been appended; what is appended afterwards
\* accumulates from empty.
C16_ResetStep ==
    \A t \in Readers :
        ReaderReset(t) => getOutput(1)' = <<>> /\ getLines(1)' = <<>>

C16_AfterReset ==
    \A t \in Readers :
        (loc[t].op = "reset" /\ wmu[1] = None) =>
            /\ getOutput(1) = Concat(hist[1])
            /\ getLines(1) = NonEmpty(hist[1])

C16_ResetEmpties ==
    /\ [][DOMAIN pc = WriterTasks => C16_ResetStep]_vars
    /\ [](DOMAIN pc = WriterTasks => C16_AfterReset)

C16_Witness ==
    /\ DOMAIN pc = WriterTasks
    /\ \E t \in Readers : loc[t].op = "reset"
    /\ loc[<<"prod", 1>>].ret = <<ProducerChunk(<<"prod", 1>>), ProducerChunk(<<"prod", 1>>)>>
    /\ pc[<<"prod", 1>>] = "idle"
    /\ wmu[1] = None
    /\ getOutput(1) = <<"a", "\n">>
    /\ getLines(1) = <<<<"a", "\n">>>>

\* the last call that returned was ResetOutput, on a running Process whose
\* program is alive and whose pumps are reading
AfterResetOutput ==
    /\ AllIdle
    /\ \E t \in Clients : loc[t].op = "ResetOutput"
    /\ running
    /\ safeWriter # 0
    /\ proc[safeWriter] = "alive"

\* C17 as stated: after ResetOutput has returned on a running Process with
\* active pumps, the next GetOutput returns the empty string and the next
\* GetLines an empty sequence.
C17_Original ==
    AfterResetOutput => GetOutputResult = <<>> /\ GetLinesResult = <<>>

\* C17 amended: ResetOutput leaves the output empty at the moment it clears
\* it, and the next GetOutput / GetLines return exactly what the pumps have
\* appended since (nothing, if no line arrived in between).
C17_ResetStep ==
    \A t \in Clients :
        (ResetOutput(t) /\ safeWriter # 0) =>
            GetOutputResult' = <<>> /\ GetLinesResult' = <<>>

C17_SinceReset ==
    AfterResetOutput =>
        /\ GetOutputResult = Concat(hist[safeWriter])
        /\ GetLinesResult = hist[safeWriter]

C17_ResetThenRead == [][C17_ResetStep]_vars /\ []C17_SinceReset

C17_Witness ==
    /\ AfterResetOutput
    /\ GetOutputResult = <<"a", "\n">>
    /\ GetLinesResult = <<<<"a", "\n">>>>
    /\ Len(sink) = 2

\* C18: merging the environment file never changes or removes an entry of
\* the mapping: a key that is in Env keeps its value, and every key the merge
\* adds comes from a line of the file.
C18_MergeStep ==
    /\ \A k \in DOMAIN Env : k \in DOMAIN Env' /\ Env'[k] = Env[k]
    /\ \A k \in DOMAIN Env' \ DOMAIN Env :
          \E i \in 1..Len(envFileText) :
              /\ ParseLine(envFileText[i]).kind = "set"
              /\ ParseLine(envFileText[i]).key = k
              /\ ParseLine(envFileText[i]).value = Env'[k]

C18_ExplicitWins == [][C18_MergeStep]_vars

C18_Witness ==
    /\ envReads = 1
    /\ envFileText = <<<<"K", "=", "f">>, <<"N", "=", "f">>>>
    /\ DOMAIN Env = {<<"K">>, <<"N">>}
    /\ Env[<<"K">>] = <<"e">>
    /\ Env[<<"N">>] = <<"f">>

\* C19: the child's effective value of a key is the explicit Env value if
\* the key is in the explicit mapping (value "e" in this specification), else
\* the value the environment file gives it (its first line that sets it),
\* else the inherited value.
C19_Keys == {<<"K">>, <<"N">>}

C19_Parsed == [i \in 1..Len(envFileText) |-> ParseLine(envFileText[i])]

C19_FileSets(parsed, key) ==
    {i \in DOMAIN parsed : parsed[i].kind = "set" /\ parsed[i].key = key}

C19_Expected(parsed, key) ==
    IF key \in DOMAIN Env /\ Env[key] = <<"e">> THEN <<"e">>
    ELSE LET fs == IF EnvFile # "" THEN C19_FileSets(parsed, key) ELSE {}
         IN IF fs # {}
            THEN LET i == CHOOSE i \in fs : \A j \in fs : i <= j
                 IN parsed[i].value
            ELSE IF \E i \in 1..Len(environ) : environ[i][1] = key[1]
                 THEN <<"i">> ELSE <<>>

C19_ChildEnvOverlay ==
    nruns > 0 =>
        LET parsed == C19_Parsed
        IN \A key \in C19_Keys :
              LET x == C19_Expected(parsed, key)
              IN EffectiveEnv(cmdEnv, key) = (IF x = <<>> THEN <<>> ELSE <<x>>)

C19_Witness ==
    /\ running
    /\ nruns = 1
    /\ Len(environ) = 2
    /\ envFileText = <<<<"K", "=", "f">>,
                       <<" ", "N", " ", "=", " ", "\"", "g", "\"", " ">>>>
    /\ EffectiveEnv(cmdEnv, <<"K">>) = <<<<"e">>>>
    /\ EffectiveEnv(cmdEnv, <<"N">>) = <<<<"g">>>>

\* C20: Run with no File on a Process that is not running returns the
\* configuration error and changes nothing: nothing is spawned, running stays
\* false, no CapturedOutput is created or replaced, the environment file is
\* not read.
C20_NoFileStep ==
    \A t \in Clients :
        (RunCall(t) /\ ~running /\ File = "") =>
            /\ loc'[t].ret = <<"no file specified">>
            /\ pc'[t] = "idle"
            /\ UNCHANGED <<running, cmd, safeWriter, nruns, proc, reaper,
                           buffer, lines, sink, readyChan, Env, cmdEnv,
                           envReads>>
            /\ \A q \in Pumps : pc'[q] = pc[q]

C20_NoFileNoEffect == [][C20_NoFileStep]_vars

C20_Witness ==
    /\ File = ""
    /\ EnvFile = ".env"
    /\ envFileErr = "none"
    /\ Len(envFileText) = 2
    /\ \E t \in Clients : pc[t] = "idle" /\ loc[t].ret = <<"no file specified">>
    /\ envReads = 0
    /\ safeWriter = 0
    /\ ~running

\* C21: when the spawn fails Run returns the error at once: running stays
\* false, no pump and no reaper is started, nothing is appended and the
\* readiness wait is not entered; the Process is then not running, so a
\* later Run goes on to spawn.
C21_SpawnFailed == nruns > 0 /\ proc[nruns] = "failed"

C21_FailStep ==
    \A t \in Clients :
        (RunStart(t) /\ proc'[nruns'] = "failed") =>
            /\ loc'[t].ret = <<"spawn error">>
            /\ pc'[t] = "idle"
            /\ pmu' = None
            /\ ~running'
            /\ \A q \in Pumps : pc'[q] = pc[q]
            /\ UNCHANGED <<reaper, buffer, lines, sink, readyChan>>

C21_LaterRunStep ==
    \A t \in Clients :
        (RunCall(t) /\ C21_SpawnFailed /\ File # "") => pc'[t] = "r_start"

C21_SpawnErrorReturns ==
    /\ [][C21_FailStep]_vars
    /\ [][C21_LaterRunStep]_vars
    /\ [](C21_SpawnFailed =>
            /\ ~running
            /\ reaper[nruns] = "none"
            /\ \A ch \in {"out", "err"} : pc[<<ch, nruns>>] = "p_none")

C21_Witness ==
    /\ WaitingFor = "hasA"
    /\ nruns = 2
    /\ proc[1] = "failed"
    /\ reaper[1] = "none"
    /\ pc[<<"out", 1>>] = "p_none"
    /\ proc[2] = "alive"
    /\ running

\* C22: when the environment file cannot be opened or read, Run spawns
\* nothing, running stays false and the CapturedOutput is not replaced; Run
\* returns the wrapped error (unless a line read before the failure stops the
\* parser itself, which is the subject of C40).
C22_ParserStops ==
    \E i \in 1..Len(envFileText) : ParseLine(envFileText[i]).kind = "panic"

C22_LoadFailsStep ==
    \A t \in Clients :
        (RunCall(t) /\ ~running /\ File # "" /\ EnvFile # "" /\ envFileErr # "none") =>
            /\ pc'[t] # "r_start"
            /\ pmu' = None
            /\ ~C22_ParserStops =>
                  /\ pc'[t] = "idle"
                  /\ loc'[t].ret = <<"failed to load env file">>
            /\ UNCHANGED <<running, cmd, safeWriter, nruns, proc, reaper,
                           buffer, lines, sink, readyChan, cmdEnv>>
            /\ \A q \in Pumps : pc'[q] = pc[q]

C23_NoWaitState ==
    WaitingFor = "nil" =>
        /\ \A t \in Clients :
              /\ pc[t] \notin {"r_diag", "r_select"}
              /\ pc[t] = "r_reap" => ENABLED RunReap(t)
        /\ \A t \in Pumps : pc[t] # "p_send"
        /\ \A k \in RunIds : readyChan[k] = 0
        /\ \A w \in WriterIds :
              \A i \in 1..Len(lines[w]) : lines[w][i] # DiagLine
        /\ \A i \in 1..Len(sink) : sink[i].chunk # DiagLine

C23_NoWaitStep ==
    \A t \in Clients :
        (WaitingFor = "nil" /\ RunStart(t) /\ running') =>
            /\ pc'[t] = "r_reap"
            /\ UNCHANGED <<buffer, lines, sink, now>>

C23_NoPredicateNoWait == []C23_NoWaitState /\ [][C23_NoWaitStep]_vars

C23_Witness ==
    /\ WaitingFor = "nil"
    /\ AllIdle
    /\ running
    /\ nruns = 1
    /\ reaper[1] = "waiting"
    /\ lines[1] = <<NumberedLine("out", 1), NumberedLine("err", 1)>>
    /\ \A t \in Pumps : t[2] = 1 => pc[t] = "p_scan"

\* C24: Stop on a running Process sends the kill to the process group when
\* Getpgid resolves and to the direct child otherwise; whatever the kill
\* returns, running is false when Stop returns and Stop reports nothing.
C24_TargetStep ==
    \A t \in Clients :
        (StopCall(t) /\ running /\ ~cmd.nil) =>
            /\ pc'[t] = "s_kill"
            /\ loc'[t].via =
                   (IF reaper[cmd.pid] # "done" THEN "group" ELSE "child")

C24_KillStep ==
    \A t \in Clients :
        StopKill(t) =>
            /\ loc[t].via \in {"group", "child"}
            /\ kills'[cmd.pid] = kills[cmd.pid] + 1
            /\ proc'[cmd.pid] # "alive"
            /\ ~running'
            /\ pc'[t] = "idle"
            /\ loc'[t].ret = <<>>
            /\ pmu' = None

C24_StopKills == [][C24_TargetStep]_vars /\ [][C24_KillStep]_vars

C24_Witness ==
    /\ running
    /\ cmd.pid = 1
    /\ proc[1] = "dead"
    /\ reaper[1] = "done"
    /\ \E t \in Clients : pc[t] = "s_kill" /\ loc[t].via = "child"

\* C25: a sink whose write fails does not affect capture: the append has
\* added the whole chunk to fullText and lines, Write returns no error, and
\* the text, the lines and every later read are those of the chunks appended,
\* as with a sink that succeeds.
C25_FailStep ==
    \A t \in SinkProducers :
        W_SinkFail(t) =>
            /\ HasSuffix(buffer[1], loc[t].chunk)
            /\ loc[t].chunk # <<>> => lines[1][Len(lines[1])] = loc[t].chunk
            /\ UNCHANGED <<buffer, lines>>
            /\ pc'[t] = "w_unlock"

C25_ReadStep ==
    \A t \in Readers :
        loc'[t] # loc[t] =>
            /\ loc'[t].op = "getOutput" => loc'[t].ret = Concat(hist[1])
            /\ loc'[t].op = "getLines" => loc'[t].ret = NonEmpty(hist[1])
            /\ loc'[t].op = "containsOutput" =>
                   loc'[t].ret = <<Contains(Concat(hist[1]), loc'[t].chunk)>>

C25_Capture ==
    /\ \A t \in SinkProducers : loc[t].err = ""
    /\ wmu[1] = None =>
          /\ buffer[1] = Concat(hist[1])
          /\ lines[1] = NonEmpty(hist[1])

C25_SinkFailureIgnored ==
    []C25_Capture /\ [][C25_FailStep]_vars /\ [][C25_ReadStep]_vars

C25_Witness ==
    /\ hist[1] = <<<<"a", "\n">>, <<"a", "\n">>>>
    /\ Len(sink) = 1
    /\ sink[1].chunk = <<"a", "\n">>
    /\ \E t \in Readers :
          /\ loc[t].op = "getOutput"
          /\ loc[t].ret = <<"a", "\n", "a", "\n">>
    /\ \A t \in SinkProducers : pc[t] = "idle" /\ loc[t].err = ""

\* C26 as stated: while a write to the sink has not returned, another append
\* that has reached the writer can go on and a read or reset can be made.
C26_Original ==
    \A t \in Producers :
        pc[t] = "w_sink" =>
            /\ \A u \in Producers : pc[u] = "w_lock" => ENABLED W_Lock(u)
            /\ \A u \in Readers :
                  (pc[u] = "idle" /\ loc[u].n < MaxReaderOps) =>
                      ENABLED ReaderRead(u) /\ ENABLED ReaderReset(u)

\* C27: within one channel order is kept: in lines the k-th chunk of a
\* channel is the k-th line the process wrote to it, whole and ending in a
\* newline, and fullText is the concatenation of lines; the chunks of the two
\* channels may interleave in any way.
C27_Of(ls, c) == SelectSeq(ls, LAMBDA x : x # <<>> /\ x[1] = c)

C27_InOrder(ls, ch) ==
    \A k \in 1..Len(C27_Of(ls, LineText(ch)[1])) :
        C27_Of(ls, LineText(ch)[1])[k] = NumberedLine(ch, k)

C27_ChannelOrder ==
    \A w \in WriterIds :
        /\ \A ch \in {"out", "err"} : C27_InOrder(lines[w], ch)
        /\ \A i \in 1..Len(lines[w]) :
              \E ch \in {"out", "err"} : lines[w][i][1] = LineText(ch)[1]
        /\ buffer[w] = Concat(lines[w])

C27_Witness ==
    /\ lines[1] = <<NumberedLine("out", 1), NumberedLine("out", 2)>>
    /\ buffer[1] = <<"a", "1", "\n", "a", "2", "\n">>
    /\ sink = <<[w |-> 1, chunk |-> <<"a", "1", "\n">>],
                [w |-> 1, chunk |-> <<"a", "2", "\n">>]>>

\* C28 as stated: a CapturedOutput receives chunks only from the pumps of
\* the process spawned by the Run that created it: a pump that has just
\* appended a line has appended it to the CapturedOutput of its own Run.
C28_Original ==
    \A t \in Pumps : pc[t] = "p_eval" => loc[t].w = t[2]

\* C29: ProjectRoot returns the nearest of the working directory and its
\* ancestors that contains go.mod if that directory is among the first 30
\* checked, and else the error "go.mod not found after 30 iterations"; the
\* loop makes at most 30 rounds.
C29_Within == {g \in goMod : g <= cwd /\ cwd - g < 30}

C29_Nearest == CHOOSE g \in C29_Within : \A h \in C29_Within : h <= g

C29_Searched ==
    /\ rootPc = "done"
    /\ result.err \notin {"failed to get current directory",
                           "failed to resolve symlinks"}

C29_NearestGoMod ==
    /\ iter <= 30
    /\ rootPc = "loop" => dir = cwd - iter
    /\ C29_Searched =>
          IF C29_Within # {}
          THEN result = [dir |-> C29_Nearest, err |-> ""]
          ELSE result = [dir |-> -1, err |-> "go.mod not found after 30 iterations"]

C29_Witness ==
    /\ rootPc = "done"
    /\ cwd = 31
    /\ goMod = {0, 2}
    /\ iter = 29
    /\ result = [dir |-> 2, err |-> ""]

\* C30 as stated: a pump stops only when its channel has been read to the
\* end, so no line the process wrote before it exited stays unread.
C30_Original ==
    \A t \in Pumps : PumpTerminated(t) => pipe[t] = 0

\* C31: a readiness signal raised before Run has reached its blocking wait is
\* not lost: a pump that sends while Run is still before the select leaves the
\* notification in the channel, the notification stays there until Run
\* receives it, and a Run that enters the wait with a notification pending
\* can leave by the signal at once; as long as the 30 seconds have not
\* passed this is the only way it leaves.
C31_SendStep ==
    \A t \in Pumps :
        (PumpSend(t) /\ RunWaiting(t[2])) => readyChan'[t[2]] = 1

C31_KeepStep ==
    \A k \in RunIds :
        (readyChan[k] = 1 /\ readyChan'[k] # 1) =>
            \E c \in Clients :
                /\ pc[c] = "r_select" /\ loc[c].s = k
                /\ pc'[c] = "r_reap" /\ loc'[c].via = "ready"

C31_Pending ==
    \A c \in Clients :
        (pc[c] = "r_select" /\ readyChan[loc[c].s] = 1) =>
            /\ ENABLED RunSelectReady(c)
            /\ now < loc[c].deadline => ~ENABLED RunSelectTimeout(c)

C31_EarlySignalKept ==
    /\ []C31_Pending
    /\ [][C31_SendStep /\ C31_KeepStep]_vars

C31_Witness ==
    /\ WaitingFor = "hasA"
    /\ \E c \in Clients : pc[c] = "r_diag" /\ loc[c].s = 1
    /\ readyChan[1] = 1
    /\ buffer[1] = <<"a", "\n">>

\* C32: with a readiness predicate configured, Run appends the diagnostic
\* line once for each successful spawn, at the end of the CapturedOutput and
\* of the sink, and only then enters the wait; the step raises no signal and
\* moves no pump; and for as long as Run is in the wait the text a pump
\* passes to the predicate contains the line.
C32_DiagCount(k) ==
    Cardinality({i \in 1..Len(sink) : sink[i] = [w |-> k, chunk |-> DiagLine]})

C32_Appended(k) ==
    /\ WaitingFor # "nil"
    /\ proc[k] \in {"alive", "dead"}
    /\ ~\E c \in Clients : pc[c] = "r_diag" /\ loc[c].s = k

C32_Once ==
    \A k \in RunIds : C32_DiagCount(k) = IF C32_Appended(k) THEN 1 ELSE 0

C32_InSnapshot ==
    \A c \in Clients :
        (WaitingFor # "nil" /\ pc[c] \in {"r_select", "r_reap"}) =>
            /\ safeWriter = loc[c].s
            /\ Contains(getOutput(safeWriter), DiagLine)
            /\ \E i \in 1..Len(getLines(safeWriter)) :
                   getLines(safeWriter)[i] = DiagLine

C32_DiagStep ==
    \A c \in Clients :
        RunDiag(c) =>
            /\ buffer'[safeWriter] = buffer[safeWriter] \o DiagLine
            /\ sink' = Append(sink, [w |-> safeWriter, chunk |-> DiagLine])
            /\ pc'[c] = "r_select"
            /\ readyChan' = readyChan
            /\ \A q \in Pumps : pc'[q] = pc[q] /\ loc'[q] = loc[q]

C32_EvalStep ==
    \A t \in Pumps :
        (PumpEval(t) /\ \E c \in Clients : pc[c] = "r_select" /\ loc[c].s = t[2])
            => Contains(getOutput(t[2]), DiagLine)

C32_DiagnosticOnce ==
    /\ []C32_Once
    /\ []C32_InSnapshot
    /\ [][C32_DiagStep /\ C32_EvalStep]_vars

C32_Witness ==
    /\ WaitingFor = "hasA"
    /\ \E c \in Clients : pc[c] = "r_select" /\ loc[c].s = 1
    /\ pc[<<"out", 1>>] = "p_eval"
    /\ buffer[1] = <<"a", "\n", "w", "\n">>
    /\ sink = <<[w |-> 1, chunk |-> <<"a", "\n">>], [w |-> 1, chunk |-> DiagLine]>>
    /\ readyChan[1] = 0

\* C33: the exit of the process on its own and its collection by the reaper
\* change nothing of the Process: running, the process handle, the
\* CapturedOutput and its content stay as they are; running goes from true to
\* false only by a Stop; and a Run called after the process died on its own,
\* with no Stop since, returns no error and spawns nothing.
C33_DiedAlone ==
    running /\ cmd.pid # 0 /\ proc[cmd.pid] = "dead" /\ kills[cmd.pid] = 0

C33_ExitStep ==
    \A k \in RunIds :
        (ProcExit(k) \/ ReaperWait(k)) =>
            UNCHANGED <<running, cmd, safeWriter, nruns, Env, pmu, buffer, lines,
                        sink, readyChan>>

C33_OnlyStopClears ==
    (running /\ ~running') =>
        \E t \in Clients : pc[t] = "s_kill" /\ pc'[t] = "idle"

C33_RunStep ==
    \A t \in Clients :
        (C33_DiedAlone /\ RunCall(t)) =>
            /\ pc'[t] = "idle" /\ loc'[t].ret = <<>>
            /\ UNCHANGED <<running, cmd, safeWriter, nruns, proc, reaper, buffer,
                           lines, sink>>
            /\ \A q \in Pumps : pc'[q] = pc[q]

C33_NaturalExitKeepsState ==
    /\ [](C33_DiedAlone => \A k \in RunIds : k > cmd.pid => proc[k] = "none")
    /\ [][C33_ExitStep /\ C33_OnlyStopClears /\ C33_RunStep]_vars

C33_Witness ==
    /\ AllIdle
    /\ C33_DiedAlone
    /\ reaper[1] = "done"
    /\ nruns = 1
    /\ GetOutputResult = <<"w", "\n", "a", "\n">>

\* C34: once the process is dead, by its own exit or by Stop, its two pumps
\* and its reaper come to an end, also when Stop is never called; a pump that
\* has a line to evaluate or a signal to raise can always take its step, and
\* a pump that has ended stays ended.
C34_PumpsOf(k) == {<<"out", k>>, <<"err", k>>}

C34_Ended(k) ==
    /\ reaper[k] = "done"
    /\ \A q \in C34_PumpsOf(k) : PumpTerminated(q)

C34_NotBlocked ==
    \A t \in Pumps :
        pc[t] \in {"p_eval", "p_send"} => ENABLED (PumpEval(t) \/ PumpSend(t))

C34_StableStep ==
    \A t \in Pumps : PumpTerminated(t) => PumpTerminated(t)'

C34_TasksTerminate ==
    /\ []C34_NotBlocked
    /\ [][C34_StableStep]_vars
    /\ \A k \in RunIds : (proc[k] = "dead") ~> C34_Ended(k)

C34_Witness ==
    /\ running
    /\ kills[1] = 0
    /\ proc[1] = "dead"
    /\ C34_Ended(1)
    /\ pipe[<<"out", 1>>] = 0 /\ pipe[<<"err", 1>>] = 0
    /\ buffer[1] = <<"w", "\n", "b", "\n">>

\* C35: with a sink configured, the sink holds exactly the chunks passed to
\* Write, whole, one for each Write that has got past its sink write, and as
\* long as nothing was reset they are in the order in which they entered
\* fullText; the sink is written only by the task that holds the writer's
\* lock, at the end of the text of which its chunk is, so by one task at a
\* time; reset changes neither the sink nor the sink in use.
C35_InWrite == {"w_buf", "w_lines", "w_sink", "w_unlock"}

C35_SinkChunks == [i \in 1..Len(sink) |-> sink[i].chunk]

C35_Pending ==
    IF \E t \in Producers : pc[t] = "w_unlock"
    THEN <<loc[CHOOSE t \in Producers : pc[t] = "w_unlock"].chunk>>
    ELSE <<>>

C35_Passed(t) ==
    loc[t].n - (IF pc[t] \in {"w_lock", "w_buf", "w_lines", "w_sink"} THEN 1 ELSE 0)

C35_Exactly ==
    /\ Len(sink) = IF LogStream
                   THEN C35_Passed(<<"prod", 1>>) + C35_Passed(<<"prod", 2>>)
                   ELSE 0
    /\ \A i \in 1..Len(sink) : sink[i].w = 1
    /\ \A t \in Producers :
          LogStream =>
             NonEmpty(ChunksBy(C35_SinkChunks, t))
                = NonEmpty(SubSeq(loc[t].ret, 1, C35_Passed(t)))
    /\ (LogStream /\ \A r \in Readers : loc[r].idx = 0) =>
          C35_SinkChunks = hist[1] \o C35_Pending

C35_OneAtATime ==
    /\ Cardinality({t \in Producers : pc[t] \in C35_InWrite}) <= 1
    /\ \A t \in Producers : pc[t] \in C35_InWrite => wmu[1] = t

C35_SinkStep ==
    sink' # sink =>
        \E t \in Producers :
            /\ pc[t] = "w_sink" /\ wmu[1] = t
            /\ sink' = Append(sink, [w |-> 1, chunk |-> loc[t].chunk])
            /\ buffer[1] = SubSeq(buffer[1], 1, Len(buffer[1]) - Len(loc[t].chunk))
                               \o loc[t].chunk

C35_ResetStep ==
    \A r \in Readers :
        ReaderReset(r) =>
            /\ buffer'[1] = <<>> /\ lines'[1] = <<>>
            /\ sink' = sink
            /\ LogStream' = LogStream

C35_SinkMirrorsAppends ==
    /\ []C35_Exactly
    /\ []C35_OneAtATime
    /\ [][C35_SinkStep /\ C35_ResetStep]_vars

C35_Witness ==
    /\ LogStream
    /\ \A t \in Producers : pc[t] = "idle" /\ loc[t].n = MaxChunks
    /\ \E r \in Readers : loc[r].idx = 1
    /\ C35_SinkChunks = <<<<"a", "\n">>, <<"b", "\n">>, <<>>, <<"b", "\n">>>>
    /\ buffer[1] = <<"b", "\n">>

\* C36 as stated: the step in which a Run returns an error (no file, a
\* failed environment file, a failed spawn) leaves what GetOutput, GetLines
\* and ContainsOutput return as it was.
C36_FailedRunStep ==
    \A t \in Clients :
        ((RunCall(t) \/ RunStart(t)) /\ pc'[t] = "idle" /\ loc'[t].ret # <<>>) =>
            /\ GetOutputResult' = GetOutputResult
            /\ GetLinesResult' = GetLinesResult
            /\ ContainsOutputResult(<<"w">>)' = ContainsOutputResult(<<"w">>)

C36_Original == [][C36_FailedRunStep]_vars

\* C37 as stated: Stop leaves the CapturedOutput and its content as they
\* are, and while the Process is stopped the text that GetOutput and GetLines
\* return is kept (it can only grow at its end) by every step other than a
\* ResetOutput and a Run that succeeds.
C37_IsPrefix(a, b) == Len(a) <= Len(b) /\ SubSeq(b, 1, Len(a)) = a

C37_StopStep ==
    \A t \in Clients :
        (StopCall(t) \/ StopKill(t)) =>
            UNCHANGED <<safeWriter, buffer, lines, cmd, nruns, Env, sink>>

C37_KeptStep ==
    (~running /\ ~running' /\ ~\E t \in Clients : ResetOutput(t)) =>
        /\ C37_IsPrefix(GetOutputResult, GetOutputResult')
        /\ C37_IsPrefix(GetLinesResult, GetLinesResult')

C37_Original == [][C37_StopStep /\ C37_KeptStep]_vars

\* C38: as long as the Process has no CapturedOutput, GetOutput returns the
\* empty text, GetLines no line and ContainsOutput false for every text; a
\* caller that finds the process lock free can make each of the calls, the
\* call returns in the same step without going to a delegate or into the
\* poll, WaitForOutput returns false, and nothing of the Process changes
\* (ResetOutput included).
C38_Texts == {<<>>, <<"a">>, <<"w", "\n">>}

C38_Defaults ==
    safeWriter = 0 =>
        /\ GetOutputResult = <<>>
        /\ GetLinesResult = <<>>
        /\ \A x \in C38_Texts : ~ContainsOutputResult(x)

C38_CanCall ==
    \A t \in Clients :
        (safeWriter = 0 /\ MayCall(t) /\ PMuFree) =>
            /\ ENABLED ReadAccessorCall(t)
            /\ ENABLED ResetOutputCall(t)
            /\ ENABLED WaitForOutput(t)

C38_CallStep ==
    \A t \in Clients :
        (/\ safeWriter = 0
         /\ ReadAccessorCall(t) \/ ResetOutputCall(t) \/ WaitForOutput(t)) =>
            /\ pc'[t] = "idle"
            /\ WaitForOutput(t) => loc'[t].ret = <<FALSE>>
            /\ UNCHANGED <<safeWriter, buffer, lines, sink, pmu, wmu, running,
                           cmd, nruns, now>>

C38_DefaultsWithoutOutput ==
    /\ []C38_Defaults
    /\ []C38_CanCall
    /\ [][C38_CallStep]_vars

C38_Witness ==
    /\ safeWriter = 0
    /\ AllIdle
    /\ \E c \in Clients : loc[c].ret = <<FALSE>>

\* C39 as stated: a waitFor that finds the needle in the text from its call
\* on returns true at its first look, whatever the timeout.
C39_FirstRoundStep ==
    \A t \in Waiters :
        (/\ WaitRound(t)
         /\ loc[t].s = 0
         /\ loc[t].seen
         /\ Contains(buffer[1], loc[t].chunk)) =>
            pc'[t] = "done" /\ loc'[t].ret = <<TRUE>>

C39_Original == [][C39_FirstRoundStep]_vars

\* C40 as stated: with an environment file that is read without error,
\* loadEnvFile returns for every content: no Run ends in a panic.
C40_Original ==
    envFileErr = "none" => \A t \in Clients : pc[t] # "panicked"
====
